---- MODULE Spec2Model ----
(***************************************************************************)
(* Model of the recording search cache of ha_reolink_extras                *)
(* (custom_components/reolink_extras/typings.py, class SearchCache) and of *)
(* the operations that mutate and read it.                                 *)
(*                                                                         *)
(* Specifications                                                          *)
(*   Spec     : append, extend, trim and slice on one cache                *)
(*   SpecCal  : calendar.py, async_get_events and _cache_events            *)
(*   SpecWalk : media_source.py, the boundary discovery of _browse_media   *)
(*   SpecConc : two _cache_events calls interleaved on one cache           *)
(*   SpecYm   : the arithmetic and the order of yearmonth                  *)
(*   SpecReg  : helpers/cache.py, the caches kept in hass.data             *)
(*   SpecEvt  : calendar.py, _async_handle_event interleaved with browses  *)
(*              and async_get_events calls on one cache                    *)
(*   SpecFwd  : helpers/reolink.py, async_forward_reolink_entries          *)
(*   SpecFwdLive : SpecFwd with the started coroutines run fairly          *)
(*                                                                         *)
(* Values                                                                  *)
(*   yearmonth  : its ordinal (year * 12 + month - 1), a small integer     *)
(*   date       : <<ym, day>>                                              *)
(*   datetime   : <<ym, day, time>>                                        *)
(*   VOD_search_status : [ym, days]   (days: the set of present days; the  *)
(*                       library iterates it in ascending day order and is *)
(*                       falsy when no day is set, having __len__)         *)
(*   VOD_file   : [start_time]        (always truthy)                      *)
(*   OrderedDict: [keys, items]       (_keys list, _items dict)            *)
(***************************************************************************)
EXTENDS Integers, Sequences, FiniteSets, TLC

\* ------------------------------------------------------------------ bounds
\* months (yearmonth ordinals) the model draws from
MaxMonth == 2
\* entries a cache holds at most: the keys of statuses, the keys of files, and
\* the recordings of a day beyond its first
MaxLoad == 3

\* sample days of a month and sample times of a day
Days == {1, 2}
Times == {1, 2}

Months == 1..MaxMonth
Dates == Months \X Days
DateTimes == Months \X Days \X Times

\* ------------------------------------------------------------------ values
None == [none |-> TRUE]

VOD_search_status(m, ds) == [ym |-> m, days |-> ds]
VOD_file(dt) == [start_time |-> dt]

AllStatuses == {VOD_search_status(m, ds) : m \in Months, ds \in SUBSET Days}
AllFiles == {VOD_file(dt) : dt \in DateTimes}

\* yearmonth.fromdate / fromstatus
fromdate(d) == d[1]
fromstatus(s) == s.ym
\* yearmonth.date(day) for day >= 0
ymdate(m, day) == <<m, day>>
\* datetime.date() / datetime.time()
dtdate(dt) == <<dt[1], dt[2]>>
dttime(dt) == dt[3]

\* orderings of the key types
DateLe(a, b) == a[1] < b[1] \/ (a[1] = b[1] /\ a[2] <= b[2])
DateTimeLt(a, b) ==
    \/ a[1] < b[1]
    \/ a[1] = b[1] /\ a[2] < b[2]
    \/ a[1] = b[1] /\ a[2] = b[2] /\ a[3] < b[3]
DateTimeLe(a, b) == a = b \/ DateTimeLt(a, b)

Range(s) == {s[i] : i \in 1..Len(s)}

\* the days of a status in iteration order (VOD_search_status.__iter__)
RECURSIVE SortedSeq(_)
SortedSeq(S) ==
    IF S = {} THEN <<>>
    ELSE LET lo == CHOOSE x \in S : \A y \in S : x <= y
         IN <<lo>> \o SortedSeq(S \ {lo})

\* truthiness: VOD_search_status.__len__, OrderedDict.__len__
StatusTruthy(s) == s # None /\ s.days # {}

\* ------------------------------------------------------------ OrderedDict
EmptyOD == [keys |-> <<>>, items |-> <<>>]
ODLen(od) == Cardinality(DOMAIN od.items)
ODTruthy(od) == od # None /\ ODLen(od) > 0
\* dict.get / Mapping.get
DictGet(items, k) == IF k \in DOMAIN items THEN items[k] ELSE None
DictSet(items, k, v) == [x \in (DOMAIN items) \cup {k} |-> IF x = k THEN v ELSE items[x]]
DictPop(items, k) == [x \in (DOMAIN items) \ {k} |-> items[x]]

\* insort replaced by list.append: the key goes to the end of the list
insort_append(keys, k) == keys \o <<k>>

\* bisect.insort (insort_right) into an ascending list of yearmonths or of times
insort(keys, k) ==
    LET n == Cardinality({i \in 1..Len(keys) : keys[i] <= k})
    IN SubSeq(keys, 1, n) \o <<k>> \o SubSeq(keys, n + 1, Len(keys))

\* bisect.insort into an ascending list of dates
insort_date(keys, k) ==
    LET n == Cardinality({i \in 1..Len(keys) : DateLe(keys[i], k)})
    IN SubSeq(keys, 1, n) \o <<k>> \o SubSeq(keys, n + 1, Len(keys))

\* list.remove: drops the first occurrence; ValueError when there is none
ListHas(keys, k) == \E i \in 1..Len(keys) : keys[i] = k
ListRemove(keys, k) ==
    IF ~ListHas(keys, k) THEN keys
    ELSE LET i == CHOOSE j \in 1..Len(keys) :
                      keys[j] = k /\ \A h \in 1..(j - 1) : keys[h] # k
         IN SubSeq(keys, 1, i - 1) \o SubSeq(keys, i + 1, Len(keys))

\* ------------------------------------------------------------ SearchCache
\* a cache value: the two OrderedDicts, the two flags, and the exception the
\* running call has raised ("" while none)
NewCache == [statuses |-> EmptyOD, files |-> EmptyOD,
             at_start |-> FALSE, at_end |-> FALSE, exc |-> ""]

Raise(c, e) == [c EXCEPT !.exc = e]

\* _statuses_pop without its "is not None" test: keys.remove(key) whatever
\* the dict held
statuses_pop_unguarded(c, key) ==
    LET popped == [c EXCEPT !.statuses.items = DictPop(c.statuses.items, key)]
    IN IF ListHas(c.statuses.keys, key)
       THEN [popped EXCEPT !.statuses.keys = ListRemove(c.statuses.keys, key)]
       ELSE Raise(popped, "ValueError")

\* SearchCache._statuses_pop: the popped status (or None) and the cache after
statuses_pop_value(c, key) == DictGet(c.statuses.items, key)
statuses_pop(c, key) ==
    IF key \notin DOMAIN c.statuses.items THEN c
    ELSE LET popped == [c EXCEPT !.statuses.items = DictPop(c.statuses.items, key)]
         IN IF ListHas(c.statuses.keys, key)
            THEN [popped EXCEPT !.statuses.keys = ListRemove(c.statuses.keys, key)]
            ELSE Raise(popped, "ValueError")

\* _del_item that leaves the recordings of the date in place
del_date_skip(c, d) == c

\* _del_item that matches the date by its month only: every date of the month
\* of d leaves files
del_date_month(c, d) ==
    LET gone == {x \in DOMAIN c.files.items : fromdate(x) = fromdate(d)}
    IN [c EXCEPT !.files.items = [x \in (DOMAIN c.files.items) \ gone |-> c.files.items[x]],
                 !.files.keys = SelectSeq(c.files.keys, LAMBDA x : fromdate(x) # fromdate(d))]

\* SearchCache._del_item, lines 281-284: the date part
del_date(c, d) ==
    IF d \notin DOMAIN c.files.items THEN c
    ELSE LET day == c.files.items[d]
             popped == [c EXCEPT !.files.items = DictPop(c.files.items, d)]
         IN IF ~ODTruthy(day) THEN popped
            ELSE IF ListHas(c.files.keys, d)
            THEN [popped EXCEPT !.files.keys = ListRemove(c.files.keys, d)]
            ELSE Raise(popped, "ValueError")

\* SearchCache._del_item, lines 270-280: the datetime part
del_datetime(c, dt) ==
    LET d == dtdate(dt)
        t == dttime(dt)
        day == DictGet(c.files.items, d)
    IN IF ~ODTruthy(day) THEN c
       ELSE IF t \notin DOMAIN day.items THEN c
       ELSE LET f1 == DictPop(day.items, t)
                c1 == [c EXCEPT !.files.items[d].items = f1]
            IN IF ~ListHas(day.keys, t) THEN Raise(c1, "ValueError")
               ELSE LET c2 == [c1 EXCEPT !.files.items[d].keys = ListRemove(day.keys, t)]
                    IN IF Cardinality(DOMAIN f1) > 0 THEN c2
                       ELSE del_date(c2, d)

\* SearchCache._del_item: key is a date <<ym, day>> or a datetime <<ym, day, time>>
del_item(c, key) ==
    IF c.exc # "" THEN c
    ELSE IF Len(key) = 3 THEN del_datetime(c, key)
    ELSE del_date(c, key)

\* a loop "for x in seq: c = F(c, x)" that an exception ends
RECURSIVE del_items(_, _)
del_items(c, dates) ==
    IF dates = <<>> \/ c.exc # "" THEN c
    ELSE del_items(del_item(c, Head(dates)), Tail(dates))

\* SearchCache.trim: key is a yearmonth <<ym>>, a date or a datetime
trim(c, key) ==
    IF Len(key) = 1
    THEN LET status == statuses_pop_value(c, key[1])
             c1 == statuses_pop(c, key[1])
         IN IF c1.exc # "" \/ ~StatusTruthy(status) THEN c1
            ELSE del_items(c1, [i \in 1..Len(SortedSeq(status.days)) |->
                                   ymdate(status.ym, SortedSeq(status.days)[i])])
    ELSE del_item(c, key)

\* SearchCache.append, lines 349-361: a VOD_search_status
append_status(c, obj) ==
    LET key == fromstatus(obj)
        old == DictGet(c.statuses.items, key)
        put(cc) == [cc EXCEPT !.statuses.items = DictSet(cc.statuses.items, key, obj)]
    IN IF StatusTruthy(old)
       THEN IF old.days = obj.days THEN c
            ELSE LET gone == SortedSeq(old.days \ obj.days)
                     c1 == del_items(c, [i \in 1..Len(gone) |-> ymdate(key, gone[i])])
                 IN IF c1.exc # "" THEN c1 ELSE put(c1)
       ELSE put([c EXCEPT !.statuses.keys = insort(c.statuses.keys, key)])

\* SearchCache.append, lines 363-375: a VOD_file
append_file(c, obj) ==
    LET d == dtdate(obj.start_time)
        t == dttime(obj.start_time)
        got == DictGet(c.files.items, d)
        \* items.setdefault(date, OrderedDict()) and the insort of a new date
        c1 == IF ODTruthy(got) THEN c
              ELSE IF got # None THEN c
              ELSE [c EXCEPT !.files.items = DictSet(c.files.items, d, EmptyOD),
                             !.files.keys = insort_date(c.files.keys, d)]
        day == c1.files.items[d]
        keys1 == IF t \in DOMAIN day.items THEN day.keys
                 ELSE insort(day.keys, t)
    IN [c1 EXCEPT !.files.items[d] =
            [keys |-> keys1, items |-> DictSet(day.items, t, obj)]]

IsStatus(obj) == "days" \in DOMAIN obj

\* an item of a batch that is neither a status nor a recording
Malformed == [malformed |-> TRUE]

\* SearchCache.append; what is no VOD_search_status is taken for a VOD_file,
\* and reading its start_time raises AttributeError when it has none
append(c, obj) ==
    IF c.exc # "" THEN c
    ELSE IF IsStatus(obj) THEN append_status(c, obj)
    ELSE IF "start_time" \notin DOMAIN obj THEN Raise(c, "AttributeError")
    ELSE append_file(c, obj)

RECURSIVE append_all(_, _)
append_all(c, objs) ==
    IF objs = <<>> \/ c.exc # "" THEN c
    ELSE append_all(append(c, Head(objs)), Tail(objs))

\* SearchCache.extend(*iterables): every item of every non-empty iterable
RECURSIVE extend(_, _)
extend(c, iterables) ==
    IF iterables = <<>> \/ c.exc # "" THEN c
    ELSE extend(append_all(c, Head(iterables)), Tail(iterables))

\* ------------------------------------------------------------------ slice
\* datetime.time.min / time.max: below / above every sample time
time_min == (CHOOSE t \in Times : \A u \in Times : t <= u) - 1
time_max == (CHOOSE t \in Times : \A u \in Times : u <= t) + 1

NoYield == [out |-> <<>>, exc |-> ""]

\* lines 337-342: the files of one day, in the order of the day's _keys
RECURSIVE slice_times(_, _, _, _)
slice_times(q, files, i, flags) ==
    IF i > Len(files.keys) THEN NoYield
    ELSE LET t == files.keys[i]
         IN IF t \notin DOMAIN files.items THEN [out |-> <<>>, exc |-> "KeyError"]
            ELSE IF flags.at_start /\ t < q.start_time
            THEN slice_times(q, files, i + 1, flags)
            ELSE IF flags.last_day /\ t > q.end_time THEN NoYield
            ELSE LET rest == slice_times(q, files, i + 1, flags)
                 IN [out |-> <<files.items[t]>> \o rest.out, exc |-> rest.exc]

\* lines 327-342: the days of one status, ascending
RECURSIVE slice_days(_, _, _, _, _)
slice_days(c, q, ym, days, at_start) ==
    IF days = <<>> THEN NoYield
    ELSE LET day == Head(days)
             passed == at_start /\ day > q.start[2]
             at1 == IF passed THEN FALSE ELSE at_start
         IN IF at_start /\ day < q.start[2]
            THEN slice_days(c, q, ym, Tail(days), at_start)
            ELSE IF ~passed /\ ym = q.end_ym /\ day > q.end[2] THEN NoYield
            ELSE LET files == DictGet(c.files.items, ymdate(ym, day))
                 IN IF ~ODTruthy(files)
                    THEN slice_days(c, q, ym, Tail(days), at1)
                    ELSE LET here == slice_times(q, files, 1,
                                        [at_start |-> at1,
                                         last_day |-> ym = q.end_ym /\ day = q.end[2]])
                             rest == IF here.exc # "" THEN NoYield
                                     ELSE slice_days(c, q, ym, Tail(days), at1)
                         IN [out |-> here.out \o rest.out,
                             exc |-> IF here.exc # "" THEN here.exc ELSE rest.exc]

\* lines 325-345: the months from __ym to end_ym
RECURSIVE slice_months(_, _, _, _)
slice_months(c, q, ym, at_start) ==
    IF ym > q.end_ym THEN NoYield
    ELSE LET status == DictGet(c.statuses.items, ym)
             here == IF StatusTruthy(status)
                     THEN slice_days(c, q, ym, SortedSeq(status.days), at_start)
                     ELSE NoYield
             rest == IF here.exc # "" THEN NoYield
                     ELSE slice_months(c, q, ym + 1, FALSE)
         IN [out |-> here.out \o rest.out,
             exc |-> IF here.exc # "" THEN here.exc ELSE rest.exc]

\* a slice that reads the files index alone: every stored recording of
\* [start, end], ascending, whether or not its month has a status
RECURSIVE SortedFiles(_)
SortedFiles(S) ==
    IF S = {} THEN <<>>
    ELSE LET lo == CHOOSE x \in S : \A y \in S : DateTimeLe(x.start_time, y.start_time)
         IN <<lo>> \o SortedFiles(S \ {lo})

slice_files_only(c, start, end) ==
    [out |-> SortedFiles(
                {c.files.items[d[1]].items[d[2]] :
                    d \in {e \in (DOMAIN c.files.items) \X Times :
                              /\ e[2] \in DOMAIN c.files.items[e[1]].items
                              /\ DateTimeLe(start, <<e[1][1], e[1][2], e[2]>>)
                              /\ DateTimeLe(<<e[1][1], e[1][2], e[2]>>, end)}}),
     exc |-> ""]

\* SearchCache.slice(start, end) run to exhaustion: the files it yields, in
\* order, and the exception that ended it. start and end are yearmonths <<ym>>,
\* dates or datetimes.
slice(c, start, end) ==
    IF ODLen(c.statuses) < 1 THEN NoYield
    ELSE LET keys == c.statuses.keys
             first == keys[1]
             last == keys[Len(keys)]
             ym0 == IF fromdate(start) > first THEN fromdate(start) ELSE first
             end_ym == IF fromdate(end) < last THEN fromdate(end) ELSE last
             at_start == IF Len(start) = 1 THEN start[1] = ym0
                         ELSE DateLe(ymdate(ym0, 1), dtdate(start))
             q == [end_ym |-> end_ym,
                   start |-> IF Len(start) = 1 THEN ymdate(start[1], 1) ELSE dtdate(start),
                   start_time |-> IF Len(start) = 3 THEN dttime(start) ELSE time_min,
                   \* yearmonth.date(-1): (self + 1).date() - timedelta(days=-1)
                   end |-> IF Len(end) = 1 THEN ymdate(end[1] + 1, 2) ELSE dtdate(end),
                   end_time |-> IF Len(end) = 3 THEN dttime(end) ELSE time_max]
         IN slice_months(c, q, ym0, at_start)

\* ------------------------------------------------------------------ state
VARIABLES
    statuses,   \* SearchCache.statuses : OrderedDict yearmonth -> VOD_search_status
    files,      \* SearchCache.files : OrderedDict date -> OrderedDict time -> VOD_file
    at_start,   \* SearchCache.at_start
    at_end,     \* SearchCache.at_end
    exc,        \* the exception the last call raised, "" when it returned
    yielded,    \* the list a slice call has produced and its caller still holds
    camera,     \* the start instants of the recordings the camera holds
    cal,        \* the running ReolinkVODCalendar.async_get_events call
    walk,       \* the running ReolinkMediaSource._browse_media boundary discovery
    tasks,      \* two _cache_events calls that run concurrently on the cache
    hass,       \* hass.data[DOMAIN] and the on-unload callbacks of the entries
    operands,   \* the last yearmonth operation: its operands and its result
    handler,    \* the running ReolinkVODCalendar._async_handle_event and _last_event
    forwarding  \* the config entries and what _forward_reolink_entry has set up

vars == <<statuses, files, at_start, at_end, exc, yielded, camera, cal, walk,
          tasks, hass, operands, handler, forwarding>>

\* what lies outside the cache, its camera and the coroutines that use it
apart == <<tasks, hass, operands, forwarding>>

\* what lies outside the calendar and the media source of one channel
side == <<apart, handler>>

\* the camera and the coroutines that query it, and what lies outside
sync == <<camera, cal, walk, side>>

\* no call of the calendar / of the media source is running
CalIdle == [pc |-> "idle", ret |-> None]
WalkIdle == [pc |-> "idle", dir |-> "", ym |-> 0, asked |-> <<>>, exc |-> ""]
\* no concurrent calls, no integration data, no yearmonth operation
TasksIdle == [pc |-> "idle"]
NoData == [domain |-> FALSE, own |-> {}, source |-> FALSE, media |-> <<>>,
           on_unload |-> {}, made |-> 0, torn |-> {}, retired |-> {},
           returned |-> {}, last |-> [op |-> "none"]]
NoOperands == [op |-> "none"]
\* no event is being handled, and no event has been seen: _last_event = None
NoEvent == [start |-> <<>>, summary |-> ""]
HandlerIdle == [pc |-> "idle", phase |-> "", now |-> [ym |-> 0, month |-> 0],
                n |-> 0, first |-> <<>>, last |-> <<>>, exc |-> "",
                refreshed |-> <<>>, got |-> <<>>, last_event |-> NoEvent]
\* no config entry has been forwarded
NoForwarding == [pc |-> "idle"]

Cache == [statuses |-> statuses, files |-> files,
          at_start |-> at_start, at_end |-> at_end, exc |-> ""]

RECURSIVE SumLen(_, _)
SumLen(items, dom) ==
    IF dom = {} THEN 0
    ELSE LET d == CHOOSE x \in dom : TRUE
         IN (IF ODLen(items[d]) > 1 THEN ODLen(items[d]) - 1 ELSE 0)
                + SumLen(items, dom \ {d})

\* SearchCache.__len__: sum(map(len, self.files.values())); values() walks
\* files._keys and looks each key up in files._items
RECURSIVE cache_len(_, _)
cache_len(c, i) ==
    IF i > Len(c.files.keys) THEN [val |-> 0, exc |-> ""]
    ELSE IF c.files.keys[i] \notin DOMAIN c.files.items THEN [val |-> 0, exc |-> "KeyError"]
    ELSE LET rest == cache_len(c, i + 1)
         IN [val |-> ODLen(c.files.items[c.files.keys[i]]) + rest.val, exc |-> rest.exc]

Load(c) == Len(c.statuses.keys) + Len(c.files.keys)
               + SumLen(c.files.items, DOMAIN c.files.items)

\* the cache after a mutating call
Commit(c) ==
    /\ Load(c) <= MaxLoad
    /\ statuses' = c.statuses
    /\ files' = c.files
    /\ at_start' = c.at_start
    /\ at_end' = c.at_end
    /\ exc' = c.exc
    /\ yielded' = <<>>
    /\ UNCHANGED sync

\* SearchCache.__init__
Init ==
    /\ statuses = EmptyOD
    /\ files = EmptyOD
    /\ at_start = FALSE
    /\ at_end = FALSE
    /\ exc = ""
    /\ yielded = <<>>
    /\ camera = {}
    /\ cal = CalIdle
    /\ walk = WalkIdle
    /\ tasks = TasksIdle
    /\ hass = NoData
    /\ operands = NoOperands
    /\ handler = HandlerIdle
    /\ forwarding = NoForwarding

\* argument lists of extend: lists of at most one item (extend is a loop of
\* append, so longer lists are the same as successive calls)
StatusLists == {<<>>} \cup {<<s>> : s \in AllStatuses}
FileLists == {<<>>} \cup {<<f>> : f \in AllFiles}
\* extend(statuses, files) and extend(files, statuses)
Batches == {<<ss, fs>> : ss \in StatusLists, fs \in FileLists}
               \cup {<<fs, ss>> : ss \in StatusLists, fs \in FileLists}
\* the batches of a search response: a month's status alone, or with a
\* recording of one of its days, in either argument order
ResponseBatches ==
    {<<<<>>, <<s>>>> : s \in AllStatuses}
        \cup {b \in Batches :
                 \E s \in AllStatuses, f \in AllFiles :
                    /\ b \in {<<(<<s>>), (<<f>>)>>, <<(<<f>>), (<<s>>)>>}
                    /\ fromdate(f.start_time) = s.ym
                    /\ f.start_time[2] \in s.days}

TrimKeys == {<<m>> : m \in Months} \cup Dates \cup DateTimes

\* cache.append(obj)
CallAppend(obj) ==
    /\ yielded = <<>>
    /\ Commit(append(Cache, obj))

\* cache.extend(*iterables)
CallExtend(iterables) ==
    /\ yielded = <<>>
    /\ Commit(extend(Cache, iterables))

\* cache.trim(key)
CallTrim(key) ==
    /\ yielded = <<>>
    /\ Commit(trim(Cache, key))

\* a slice call that drops from the cache the statuses it walked
CallSlice_consuming(start, end) ==
    /\ yielded = <<>>
    /\ DateTimeLe(start, end)
    /\ LET r == slice(Cache, start, end)
       IN /\ yielded' = r.out
          /\ exc' = r.exc
    /\ statuses' = EmptyOD
    /\ UNCHANGED <<files, at_start, at_end>>
    /\ UNCHANGED sync

\* list(cache.slice(start, end)) for datetimes start <= end
CallSlice(start, end) ==
    /\ yielded = <<>>
    /\ DateTimeLe(start, end)
    /\ LET r == slice(Cache, start, end)
       IN /\ yielded' = r.out
          /\ exc' = r.exc
    /\ UNCHANGED <<statuses, files, at_start, at_end>>
    /\ UNCHANGED sync

\* the caller is done with the list
Discard ==
    /\ yielded # <<>>
    /\ yielded' = <<>>
    /\ UNCHANGED <<statuses, files, at_start, at_end, exc>>
    /\ UNCHANGED sync

Next ==
    \/ \E obj \in AllStatuses \cup AllFiles : CallAppend(obj)
    \/ \E b \in ResponseBatches : CallExtend(b)
    \/ \E key \in TrimKeys : CallTrim(key)
    \/ \E start, end \in DateTimes : CallSlice(start, end)
    \/ Discard

Spec == Init /\ [][Next]_vars

\* ----------------------------------------------------------------- camera
\* The remote search collaborator, Host.request_vod_files(channel, start,
\* end, status_only, stream): a status per month touched by [start, end] and,
\* unless status_only, the recordings of [start, end] in ascending order, cut
\* short when the result is too large.

\* recordings the camera holds at most
MaxCam == 3
\* remote queries one _cache_events call issues at most
MaxQueries == 4

\* sample months of the camera's recordings: last month and the current month
CamMonths == {1, 2}
CamDates == CamMonths \X Days
CamInstants == CamMonths \X Days \X Times

Cameras == {cam \in SUBSET CamInstants : Cardinality(cam) <= MaxCam}

\* the days of month m the camera marks present
CameraDays(cam, m) == {x[2] : x \in {y \in cam : y[1] = m}}

\* the statuses of a response for the months m..m2; omit: the camera leaves
\* out the months it holds nothing of
RECURSIVE ResponseStatuses(_, _, _, _)
ResponseStatuses(cam, m, m2, omit) ==
    IF m > m2 THEN <<>>
    ELSE (IF omit /\ CameraDays(cam, m) = {} THEN <<>>
          ELSE <<VOD_search_status(m, CameraDays(cam, m))>>)
             \o ResponseStatuses(cam, m + 1, m2, omit)

\* the recordings of [start, end] the camera holds, ascending
ResponseFiles(cam, start, end) ==
    SortedFiles({VOD_file(x) : x \in {y \in cam : DateTimeLe(start, y) /\ DateTimeLe(y, end)}})

\* ------------------------------------------------------- calendar entity
\* self._host.api.time(): the current time, the last sample instant
now == CHOOSE x \in CamInstants : \A y \in CamInstants : DateTimeLe(y, x)

\* datetime.combine(date, time)
combine(d, t) == <<d[1], d[2], t>>

\* next(iter(cache), None): SearchCache.__iter__ walks files._keys and each
\* day's _keys; <<>> stands for None
RECURSIVE cache_first(_, _)
cache_first(c, i) ==
    IF i > Len(c.files.keys) THEN [at |-> <<>>, exc |-> ""]
    ELSE LET d == c.files.keys[i]
         IN IF d \notin DOMAIN c.files.items THEN [at |-> <<>>, exc |-> "KeyError"]
            ELSE IF c.files.items[d].keys = <<>> THEN cache_first(c, i + 1)
            ELSE [at |-> combine(d, Head(c.files.items[d].keys)), exc |-> ""]

\* next(reversed(cache), None): SearchCache.__reversed__
RECURSIVE cache_last(_, _)
cache_last(c, i) ==
    IF i < 1 THEN [at |-> <<>>, exc |-> ""]
    ELSE LET d == c.files.keys[i]
         IN IF d \notin DOMAIN c.files.items THEN [at |-> <<>>, exc |-> "KeyError"]
            ELSE IF c.files.items[d].keys = <<>> THEN cache_last(c, i - 1)
            ELSE LET k == c.files.items[d].keys
                 IN [at |-> combine(d, k[Len(k)]), exc |-> ""]

\* _file_to_event: the calendar event of a recording
file_to_event(file) == [start |-> file.start_time, summary |-> "event"]

\* the frame of a _cache_events(start_date, end_date) call that awaits the
\* answer to its first query; n counts the queries it has issued
cache_events(start_date, end_date) ==
    [start_date |-> start_date, end_date |-> end_date,
     start |-> dtdate(start_date), end |-> dtdate(end_date),
     possible |-> {}, found |-> {}, n |-> 1]

\* lines 119-126: the dates the statuses mark present with start <= date < end
possible_dates(sts, start, end) ==
    {x \in UNION {{ymdate(sts[i].ym, d) : d \in sts[i].days} : i \in 1..Len(sts)} :
        DateLe(start, x) /\ DateLe(x, end) /\ x # end}

\* lines 127, 137: the dates of the files of a response
found_dates(fls) == {dtdate(fls[i].start_time) : i \in 1..Len(fls)}

\* a reconciliation that takes every possible date for found
missing_none(possible, found) == {}

\* lines 128, 138: missing = possible - found
missing_dates(possible, found) == possible \ found

\* missing[0] and missing[-1] of the sorted list
MinDate(S) == CHOOSE x \in S : \A y \in S : DateLe(x, y)
MaxDate(S) == CHOOSE x \in S : \A y \in S : DateLe(y, x)

\* lines 171-173: the events of cache.slice(start_date, end_date); ret is the
\* frame of the _cache_events call that has just returned, or None
get_events_return(c, k, ret) ==
    LET r == slice(c, k.start_date, k.end_date)
    IN IF r.exc # ""
       THEN [pc |-> "raised", req |-> k.req, exc |-> r.exc, ret |-> ret]
       ELSE [pc |-> "returned", req |-> k.req, ret |-> ret,
             events |-> [i \in 1..Len(r.out) |-> file_to_event(r.out[i])]]

\* lines 163-173 from the return of a _cache_events call on: the next
\* _cache_events call of async_get_events up to its first query, or the return
get_events_continue(c, k, ret) ==
    IF k.todo = <<>> THEN get_events_return(c, k, ret)
    ELSE [k EXCEPT !.ce = cache_events(Head(k.todo)[1], Head(k.todo)[2]),
                   !.todo = Tail(k.todo),
                   !.ret = ret]

\* async_get_events(start_date, end_date), lines 147-170, up to its first
\* remote query or its return
get_events(c, start_date, end_date) ==
    LET first0 == IF c.at_start THEN cache_first(c, 1) ELSE [at |-> <<>>, exc |-> ""]
        start1 == IF c.at_start /\ first0.at # <<>> /\ DateTimeLt(start_date, first0.at)
                  THEN combine(dtdate(first0.at), time_min)
                  ELSE start_date
        end1 == IF DateLe(dtdate(now), dtdate(end_date))
                THEN combine(dtdate(now), time_max)
                ELSE end_date
        first == cache_first(c, 1)
        last == cache_last(c, Len(c.files.keys))
        calls == IF first.at = <<>> \/ last.at = <<>> \/ dtdate(first.at) = dtdate(last.at)
                 THEN << <<start1, end1>> >>
                 ELSE (IF DateTimeLt(start1, first.at) THEN << <<start1, first.at>> >> ELSE <<>>)
                          \o (IF DateTimeLt(last.at, end1) THEN << <<last.at, end1>> >> ELSE <<>>)
        k == [pc |-> "await", req |-> <<start_date, end_date>>,
              start_date |-> start1, end_date |-> end1,
              todo |-> calls, ce |-> None, ret |-> None]
    IN IF first0.exc # "" \/ first.exc # "" \/ last.exc # ""
       THEN [pc |-> "raised", req |-> k.req, exc |-> "KeyError", ret |-> None]
       ELSE get_events_continue(c, k, None)

\* a merge that keeps of the recordings only those of the answer
cache_merge_replacing(c, ce, sts, fls) ==
    extend([c EXCEPT !.files = EmptyOD], <<sts, fls>>)

\* line 117, cache.extend(files, statuses) after the first query, and line
\* 136, cache.extend(statuses, files) after each further one
cache_merge(c, ce, sts, fls) ==
    IF ce.n = 1 THEN extend(c, <<fls, sts>>) ELSE extend(c, <<sts, fls>>)

\* _cache_events from the answer (sts, fls) to its pending query up to its
\* next query or its return: the cache, the frame, and the dates still missing
cache_events_response(c, ce, sts, fls) ==
    LET c1 == cache_merge(c, ce, sts, fls)
        possible == IF ce.n = 1 THEN possible_dates(sts, ce.start, ce.end) ELSE ce.possible
        found == ce.found \cup found_dates(fls)
        missing == missing_dates(possible, found)
    IN [cache |-> c1,
        missing |-> missing,
        ce |-> IF missing = {}
               THEN [ce EXCEPT !.possible = possible, !.found = found]
               ELSE [ce EXCEPT !.possible = possible, !.found = found,
                               !.start_date = combine(MinDate(missing), time_min),
                               !.end_date = combine(MaxDate(missing), time_max),
                               !.n = ce.n + 1]]

\* the cache variables after a step of a coroutine
Store(c) ==
    /\ statuses' = c.statuses
    /\ files' = c.files
    /\ at_start' = c.at_start
    /\ at_end' = c.at_end
    /\ UNCHANGED <<exc, yielded>>

\* instants a caller asks events between: the midnights of the sample dates
CalInstants == {combine(d, time_min) : d \in CamDates}

\* a caller awaits async_get_events(start_date, end_date)
GetEvents(start_date, end_date) ==
    /\ cal.pc = "idle"
    /\ DateTimeLe(start_date, end_date)
    /\ cal' = get_events(Cache, start_date, end_date)
    /\ UNCHANGED <<statuses, files, at_start, at_end, exc, yielded, camera, walk, side>>

\* a pending query that raises after the cache took part of its answer
RemoteFails_merging ==
    /\ cal.pc = "await"
    /\ cal' = [pc |-> "raised", req |-> cal.req, exc |-> "ReolinkError", ret |-> None,
               ce |-> cal.ce]
    /\ \E omit \in BOOLEAN :
          Store(extend(Cache, <<ResponseStatuses(camera, fromdate(cal.ce.start_date),
                                                 fromdate(cal.ce.end_date), omit)>>))
    /\ UNCHANGED <<camera, walk, side>>

\* the pending request_vod_files raises (or the task is cancelled): the
\* exception leaves _cache_events and async_get_events
RemoteFails ==
    /\ cal.pc = "await"
    /\ cal' = [pc |-> "raised", req |-> cal.req, exc |-> "ReolinkError", ret |-> None,
               ce |-> cal.ce]
    /\ UNCHANGED <<statuses, files, at_start, at_end, exc, yielded, camera, walk, side>>

\* the camera answers the pending query with its statuses and the first n
\* recordings of the window; _cache_events and async_get_events run on to the
\* next query or to the return
Respond(omit, n) ==
    /\ cal.pc = "await"
    /\ LET ce == cal.ce
           sts == ResponseStatuses(camera, fromdate(ce.start_date), fromdate(ce.end_date), omit)
           all == ResponseFiles(camera, ce.start_date, ce.end_date)
       IN /\ n <= Len(all)
          /\ LET r == cache_events_response(Cache, ce, sts, SubSeq(all, 1, n))
             IN /\ r.missing # {} => ce.n < MaxQueries
                /\ Len(r.cache.statuses.keys) <= Cardinality(CamMonths)
                /\ Store(r.cache)
                /\ cal' = IF r.cache.exc # ""
                          THEN [pc |-> "raised", req |-> cal.req, exc |-> r.cache.exc, ret |-> None]
                          ELSE IF r.missing # {} THEN [cal EXCEPT !.ce = r.ce, !.ret = None]
                          ELSE get_events_continue(r.cache, cal, r.ce)
    /\ UNCHANGED <<camera, walk, side>>

\* the caller has taken the events, or the exception
Resume ==
    /\ cal.pc \in {"returned", "raised"}
    /\ cal' = CalIdle
    /\ UNCHANGED <<statuses, files, at_start, at_end, exc, yielded, camera, walk, side>>

InitCal ==
    /\ statuses = EmptyOD
    /\ files = EmptyOD
    /\ at_start = FALSE
    /\ at_end = FALSE
    /\ exc = ""
    /\ yielded = <<>>
    /\ camera \in Cameras
    /\ cal = CalIdle
    /\ walk = WalkIdle
    /\ tasks = TasksIdle
    /\ hass = NoData
    /\ operands = NoOperands
    /\ handler = HandlerIdle
    /\ forwarding = NoForwarding

NextCal ==
    \/ \E start_date, end_date \in CalInstants : GetEvents(start_date, end_date)
    \/ \E omit \in BOOLEAN, n \in 0..MaxCam : Respond(omit, n)
    \/ RemoteFails
    \/ Resume

SpecCal == InitCal /\ [][NextCal]_vars

\* ----------------------------------------------- media source, discovery
\* ReolinkMediaSource._browse_media at channel or year level (year or month
\* not given): the backward and the forward walk, lines 255-288

\* remote queries one walk issues at most
MaxWalk == 4

\* date.today() and its yearmonth
today == dtdate(now)
today_ym == fromdate(today)

\* the pending status-only query of a walk: direction and month
walk_await(w, dir, ym) == [w EXCEPT !.pc = "await", !.dir = dir, !.ym = ym]

\* a forward walk without its test against the current month
past_today_never(end) == FALSE

\* line 275: end > yearmonth.fromdate(today)
past_today(end) == end > today_ym

\* lines 273-280: one pass of "while not cache.at_end" up to its query
forward_next(c, w, end) ==
    IF past_today(end + 1)
    THEN [cache |-> [c EXCEPT !.at_end = TRUE], walk |-> [w EXCEPT !.pc = "done"]]
    ELSE [cache |-> c, walk |-> walk_await(w, "fwd", end + 1)]

\* lines 271-272: next(reversed(cache.statuses)) raises StopIteration on an
\* empty index, a RuntimeError of the coroutine
forward_walk(c, w) ==
    IF c.at_end THEN [cache |-> c, walk |-> [w EXCEPT !.pc = "done"]]
    ELSE IF c.statuses.keys = <<>>
    THEN [cache |-> c, walk |-> [w EXCEPT !.pc = "raised", !.exc = "RuntimeError"]]
    ELSE forward_next(c, w, c.statuses.keys[Len(c.statuses.keys)] - 1)

\* a backward walk that steps over a month
backward_next_skipping(c, w, start) == [cache |-> c, walk |-> walk_await(w, "back", start - 2)]

\* lines 259-263: one pass of "while not cache.at_start" up to its query
backward_next(c, w, start) == [cache |-> c, walk |-> walk_await(w, "back", start - 1)]

\* lines 256-258
backward_walk(c, w) ==
    IF c.at_start THEN forward_walk(c, w)
    ELSE backward_next(c, w, IF ODLen(c.statuses) > 0 THEN c.statuses.keys[1]
                             ELSE today_ym + 1)

\* what a walk notes of an answer: no status, statuses without a day, or not;
\* and whether a status of it differs from the cached one
answer_kind(sts) ==
    IF Len(sts) = 0 THEN "none"
    ELSE IF \A i \in 1..Len(sts) : sts[i].days = {} THEN "empty"
    ELSE "days"
answer_new(c, sts) == \E i \in 1..Len(sts) : DictGet(c.statuses.items, sts[i].ym) # sts[i]

\* lines 267-270 and 285-288: the walk from the answer to its pending query on
walk_response(c, w, sts) ==
    LET w1 == [w EXCEPT !.asked = Append(w.asked,
                   [dir |-> w.dir, ym |-> w.ym, answer |-> answer_kind(sts),
                    new |-> answer_new(c, sts)])]
    IN IF w.dir = "back"
       THEN IF Len(sts) = 0 THEN forward_walk([c EXCEPT !.at_start = TRUE], w1)
            ELSE backward_next(extend(c, <<(<<>>), sts>>), w1, w.ym)
       ELSE IF Len(sts) = 0
            THEN [cache |-> [c EXCEPT !.at_end = TRUE], walk |-> [w1 EXCEPT !.pc = "done"]]
            ELSE forward_next(extend(c, <<(<<>>), sts>>), w1, w.ym)

\* lines 264-266 and 281-283: the query raised
walk_failure(c, w) ==
    LET w1 == [w EXCEPT !.asked = Append(w.asked,
                   [dir |-> w.dir, ym |-> w.ym, answer |-> "fail", new |-> FALSE])]
    IN IF w.dir = "back" THEN forward_walk([c EXCEPT !.at_start = TRUE], w1)
       ELSE [cache |-> [c EXCEPT !.at_end = TRUE], walk |-> [w1 EXCEPT !.pc = "done"]]

\* a step of the walk: the cache and the coroutine after it; a further query
\* only below the bound
WalkStep(r) ==
    /\ r.walk.pc = "await" => Len(r.walk.asked) < MaxWalk
    /\ Store(r.cache)
    /\ walk' = r.walk
    /\ UNCHANGED <<camera, cal, side>>

\* a browse at channel or year level begins
Browse ==
    /\ walk.pc = "idle"
    /\ WalkStep(backward_walk(Cache, walk))

\* the camera answers the pending status-only query for the month walk.ym
WalkRespond(omit) ==
    /\ walk.pc = "await"
    /\ WalkStep(walk_response(Cache, walk, ResponseStatuses(camera, walk.ym, walk.ym, omit)))

\* the pending query raises
WalkFails ==
    /\ walk.pc = "await"
    /\ WalkStep(walk_failure(Cache, walk))

\* the browse has returned, or raised
WalkResume ==
    /\ walk.pc \in {"done", "raised"}
    /\ walk' = WalkIdle
    /\ UNCHANGED <<statuses, files, at_start, at_end, exc, yielded, camera, cal, side>>

\* the cache a browse finds: new, or holding the status of one month from an
\* earlier status-only query (calendar.py, cache.extend([], statuses))
InitWalk ==
    /\ camera \in Cameras
    /\ \E seed \in SUBSET CamMonths :
          /\ Cardinality(seed) <= 1
          /\ statuses = IF seed = {} THEN EmptyOD
                        ELSE LET m == CHOOSE x \in seed : TRUE
                             IN extend(NewCache, <<(<<>>),
                                    ResponseStatuses(camera, m, m, FALSE)>>).statuses
    /\ files = EmptyOD
    /\ at_start = FALSE
    /\ at_end = FALSE
    /\ exc = ""
    /\ yielded = <<>>
    /\ cal = CalIdle
    /\ walk = WalkIdle
    /\ tasks = TasksIdle
    /\ hass = NoData
    /\ operands = NoOperands
    /\ handler = HandlerIdle
    /\ forwarding = NoForwarding

NextWalk ==
    \/ Browse
    \/ \E omit \in BOOLEAN : WalkRespond(omit)
    \/ WalkFails
    \/ WalkResume

SpecWalk == InitWalk /\ [][NextWalk]_vars

\* ------------------------------------------------ calendar, event handler
\* ReolinkVODCalendar._async_handle_event, lines 194-260, run when the entity
\* is added and on every motion / VOD signal: it probes the current month and
\* the months before it for a status with a recorded day, fetches again the
\* first and the last recorded day the cache knows of, and keeps the event of
\* the last cached recording in _last_event.

\* status-only queries one probe issues at most
MaxProbe == 3
\* month keys statuses._keys holds at most when the handler merges: a status
\* without a day puts its key in again each time it is merged
MaxKeys == Cardinality(CamMonths) + 1

\* the month of the year the current month is: January or February
MonthsOfYear == {1, 2}

\* lines 214-217: now.replace(month=now.month - 1), and from January
\* now.replace(year=now.year - 1, month=1), the January of the year before.
\* The sample days exist in every month, so replace does not raise here.
previous_month(nw) ==
    IF nw.month > 1 THEN [ym |-> nw.ym - 1, month |-> nw.month - 1]
    ELSE [ym |-> nw.ym - 12, month |-> 1]

\* line 213: any(filter(lambda s: len(s.days) > 0, statuses))
any_days(sts) == \E i \in 1..Len(sts) : sts[i].days # {}

\* lines 223-228: status[0] of the first status with a day, in the order of
\* statuses._keys; <<>> stands for None
RECURSIVE first_day(_, _)
first_day(c, i) ==
    IF i > Len(c.statuses.keys) THEN <<>>
    ELSE LET status == c.statuses.items[c.statuses.keys[i]]
         IN IF status.days # {}
            THEN ymdate(status.ym, CHOOSE d \in status.days : \A e \in status.days : d <= e)
            ELSE first_day(c, i + 1)

\* lines 230-235: status[-1] of the last status with a day
RECURSIVE last_day(_, _)
last_day(c, i) ==
    IF i < 1 THEN <<>>
    ELSE LET status == c.statuses.items[c.statuses.keys[i]]
         IN IF status.days # {}
            THEN ymdate(status.ym, CHOOSE d \in status.days : \A e \in status.days : e <= d)
            ELSE last_day(c, i - 1)

\* the handler awaits the answer to a query of the given phase
handler_await(h, phase) == [h EXCEPT !.pc = "await", !.phase = phase]

\* a handler that clears at_start and probes from now
handle_event_clearing(c, h, month) ==
    [cache |-> [c EXCEPT !.at_start = FALSE],
     handler |-> handler_await([h EXCEPT !.now = [ym |-> today_ym, month |-> month],
                                         !.n = 1, !.first = <<>>, !.last = <<>>,
                                         !.exc = "", !.refreshed = <<>>, !.got = <<>>],
                               "probe")]

\* lines 195-208: cache.statuses.keys is the method Mapping.keys, subscripting
\* it raises TypeError; otherwise the first status-only query, for now..now
handle_event(c, h, month) ==
    IF c.at_start
    THEN [cache |-> c, handler |-> [h EXCEPT !.pc = "raised", !.exc = "TypeError"]]
    ELSE [cache |-> c,
          handler |-> handler_await([h EXCEPT !.now = [ym |-> today_ym, month |-> month],
                                              !.n = 1, !.first = <<>>, !.last = <<>>,
                                              !.exc = "", !.refreshed = <<>>, !.got = <<>>],
                                    "probe")]

\* a refresh that trims the day and merges nothing
day_refresh_trim_only(c, day, sts, fls) == trim(c, day)

\* lines 245-246 and 254-255: cache.trim(day); cache.extend(statuses, files)
day_refresh(c, day, sts, fls) == extend(trim(c, day), <<sts, fls>>)

\* a handler that reads the first entry of the cache instead of the last
read_first(c, h) ==
    LET l == cache_first(c, 1)
    IN IF l.exc # "" THEN [h EXCEPT !.pc = "raised", !.exc = l.exc]
       ELSE IF l.at = <<>> THEN [h EXCEPT !.pc = "done"]
       ELSE [h EXCEPT !.pc = "done",
                      !.last_event =
                          file_to_event(c.files.items[dtdate(l.at)].items[dttime(l.at)])]

\* lines 256-257: _last_event from next(reversed(cache), None)
read_last(c, h) ==
    LET l == cache_last(c, Len(c.files.keys))
    IN IF l.exc # "" THEN [h EXCEPT !.pc = "raised", !.exc = l.exc]
       ELSE IF l.at = <<>> THEN [h EXCEPT !.pc = "done"]
       ELSE [h EXCEPT !.pc = "done",
                      !.last_event =
                          file_to_event(c.files.items[dtdate(l.at)].items[dttime(l.at)])]

\* lines 223-243: first and last after the probe, and the query that follows
handler_days(c, h) ==
    LET first == first_day(c, 1)
        last == last_day(c, Len(c.statuses.keys))
        h1 == [h EXCEPT !.first = first, !.last = last]
    IN IF last = <<>> THEN [h1 EXCEPT !.pc = "done"]
       ELSE IF first # <<>> /\ first # last THEN handler_await(h1, "first")
       ELSE handler_await(h1, "last")

\* the handler from an answer (statuses, files) to its next query or its end
handler_response(c, h, sts, fls) ==
    IF h.phase = "probe"
    THEN LET c1 == extend(c, <<(<<>>), sts>>)
         IN IF c1.exc # ""
            THEN [cache |-> c1, handler |-> [h EXCEPT !.pc = "raised", !.exc = c1.exc]]
            ELSE IF any_days(sts) THEN [cache |-> c1, handler |-> handler_days(c1, h)]
            ELSE [cache |-> c1,
                  handler |-> handler_await([h EXCEPT !.now = previous_month(h.now),
                                                      !.n = h.n + 1], "probe")]
    ELSE LET day == IF h.phase = "first" THEN h.first ELSE h.last
             c1 == day_refresh(c, day, sts, fls)
             h1 == [h EXCEPT !.refreshed = Append(h.refreshed, day), !.got = fls]
         IN IF c1.exc # ""
            THEN [cache |-> c1, handler |-> [h1 EXCEPT !.pc = "raised", !.exc = c1.exc]]
            ELSE IF h.phase = "first" THEN [cache |-> c1, handler |-> handler_await(h1, "last")]
            ELSE [cache |-> c1, handler |-> read_last(c1, h1)]

\* the month and the window of the pending query
handler_month(h) ==
    IF h.phase = "probe" THEN h.now.ym
    ELSE IF h.phase = "first" THEN fromdate(h.first) ELSE fromdate(h.last)
handler_files(cam, h) ==
    IF h.phase = "probe" THEN <<>>
    ELSE LET day == IF h.phase = "first" THEN h.first ELSE h.last
         IN ResponseFiles(cam, combine(day, time_min), combine(day, time_max))

\* a signal arrives, or the entity is added: the handler starts
HandleEvent(month) ==
    /\ handler.pc = "idle"
    /\ LET r == handle_event(Cache, handler, month)
       IN /\ Store(r.cache)
          /\ handler' = r.handler
    /\ UNCHANGED <<camera, cal, walk, apart>>

\* the camera answers the pending query of the handler with its statuses and
\* the first n recordings of the day
HandlerRespond(omit, n) ==
    /\ handler.pc = "await"
    /\ LET sts == ResponseStatuses(camera, handler_month(handler), handler_month(handler), omit)
           all == handler_files(camera, handler)
       IN /\ n <= Len(all)
          /\ LET r == handler_response(Cache, handler, sts, SubSeq(all, 1, n))
             IN /\ r.handler.n <= MaxProbe
                /\ Len(r.cache.statuses.keys) <= MaxKeys
                /\ Store(r.cache)
                /\ handler' = r.handler
    /\ UNCHANGED <<camera, cal, walk, apart>>

\* the pending query of the handler raises: the exception leaves the handler
HandlerFails ==
    /\ handler.pc = "await"
    /\ handler' = [handler EXCEPT !.pc = "raised", !.exc = "ReolinkError"]
    /\ UNCHANGED <<statuses, files, at_start, at_end, exc, yielded, camera, cal, walk, apart>>

\* the handler has returned, or raised; _last_event stays
HandlerResume ==
    /\ handler.pc \in {"done", "raised"}
    /\ handler' = [HandlerIdle EXCEPT !.last_event = handler.last_event]
    /\ UNCHANGED <<statuses, files, at_start, at_end, exc, yielded, camera, cal, walk, apart>>

\* the coroutines of one channel on its cache: the event handler, browses of
\* the media source and async_get_events calls over the sample dates,
\* interleaved at their awaits. The camera holds a recording of last month, one
\* of the current month, both or none; a coroutine starts while at most one
\* other is in flight.
EvtInstants == {<<1, 1, 1>>, <<2, 2, 1>>}

InitEvt ==
    /\ InitCal
    /\ camera \subseteq EvtInstants

InFlight ==
    (IF cal.pc = "idle" THEN 0 ELSE 1) + (IF walk.pc = "idle" THEN 0 ELSE 1)
        + (IF handler.pc = "idle" THEN 0 ELSE 1)

NextHandler ==
    \/ \E month \in MonthsOfYear : InFlight < 2 /\ HandleEvent(month)
    \/ \E omit \in BOOLEAN, n \in 0..MaxCam : HandlerRespond(omit, n)
    \/ HandlerFails
    \/ HandlerResume

NextEvt ==
    \/ NextHandler
    \/ InFlight < 2 /\ Browse
    \/ \E omit \in BOOLEAN : WalkRespond(omit)
    \/ WalkFails
    \/ WalkResume
    \/ InFlight < 2 /\ GetEvents(combine(MinDate(CamDates), time_min),
                                 combine(MaxDate(CamDates), time_min))
    \/ \E omit \in BOOLEAN, n \in 0..MaxCam : Respond(omit, n)
    \/ RemoteFails
    \/ Resume

SpecEvt == InitEvt /\ [][NextEvt]_vars

\* ------------------------------------------- concurrent reconciliations
\* Two _cache_events calls on one cache, each suspended at its remote query.
\* The camera is static: it holds the same recordings throughout, cuts every
\* answer after the same number of recordings (limit) and treats the months
\* it holds nothing of in the same way (omit).

\* the answer of the static camera to the pending query of a frame
static_response(cam, ce, limit, omit) ==
    LET all == ResponseFiles(cam, ce.start_date, ce.end_date)
    IN [sts |-> ResponseStatuses(cam, fromdate(ce.start_date), fromdate(ce.end_date), omit),
        fls |-> SubSeq(all, 1, IF Len(all) < limit THEN Len(all) ELSE limit)]

\* one _cache_events call run alone from its first query to its return
RECURSIVE run_cache_events(_, _, _, _, _)
run_cache_events(c, cam, ce, limit, omit) ==
    LET a == static_response(cam, ce, limit, omit)
        r == cache_events_response(c, ce, a.sts, a.fls)
    IN IF r.missing = {} \/ r.cache.exc # "" THEN r.cache
       ELSE run_cache_events(r.cache, cam, r.ce, limit, omit)

\* the ranges of the calls: from one sample midnight to a later one
CalRanges == {r \in CalInstants \X CalInstants : DateTimeLt(r[1], r[2])}
Overlap(r1, r2) == DateTimeLt(r1[1], r2[2]) /\ DateTimeLt(r2[1], r1[2])

\* two callers await _cache_events(r1) and _cache_events(r2): each call runs
\* to its first query
StartPair(r1, r2) ==
    /\ tasks.pc = "start"
    /\ Overlap(r1, r2)
    /\ tasks' = [tasks EXCEPT !.pc = "run",
                              !.r = <<r1, r2>>,
                              !.t = << [ce |-> cache_events(r1[1], r1[2]), done |-> FALSE],
                                       [ce |-> cache_events(r2[1], r2[2]), done |-> FALSE] >>]
    /\ UNCHANGED <<statuses, files, at_start, at_end, exc, yielded, camera, cal, walk,
                   hass, operands, handler, forwarding>>

\* the camera answers the pending query of call i, which merges the answer
\* and runs on to its next query or to its return
TaskRespond(i) ==
    /\ tasks.pc = "run"
    /\ ~tasks.t[i].done
    /\ LET a == static_response(camera, tasks.t[i].ce, tasks.limit, tasks.omit)
           r == cache_events_response(Cache, tasks.t[i].ce, a.sts, a.fls)
       IN /\ Store(r.cache)
          /\ tasks' = [tasks EXCEPT !.t[i] = [ce |-> r.ce, done |-> r.missing = {}],
                                    !.by = i,
                                    !.switches = IF tasks.by \in {0, i} THEN tasks.switches
                                                 ELSE tasks.switches + 1]
    /\ UNCHANGED <<camera, cal, walk, hass, operands, handler, forwarding>>

\* a recording the camera held once and has dropped since
StaleInstant == <<1, 2, 2>>

\* the cache an earlier call for the whole sample range left, made while the
\* camera held StaleInstant as well and answered in full
SeededCache(cam, omit) ==
    run_cache_events(NewCache, cam \cup {StaleInstant},
                     cache_events(combine(<<1, 1>>, time_min), combine(<<2, 2>>, time_min)),
                     Cardinality(CamInstants), omit)

\* the cache the two calls find is new or left by an earlier call; the camera
\* holds some recordings
InitConc ==
    /\ camera \in Cameras
    /\ \E limit \in 1..MaxCam, omit \in BOOLEAN :
       \E c0 \in {NewCache, SeededCache(camera, omit)} :
          /\ tasks = [pc |-> "start", limit |-> limit, omit |-> omit, c0 |-> c0,
                      r |-> <<>>, t |-> <<>>, by |-> 0, switches |-> 0]
          /\ statuses = c0.statuses
          /\ files = c0.files
    /\ at_start = FALSE
    /\ at_end = FALSE
    /\ exc = ""
    /\ yielded = <<>>
    /\ cal = CalIdle
    /\ walk = WalkIdle
    /\ hass = NoData
    /\ operands = NoOperands
    /\ handler = HandlerIdle
    /\ forwarding = NoForwarding

NextConc ==
    \/ \E r1, r2 \in CalRanges : StartPair(r1, r2)
    \/ \E i \in {1, 2} : TaskRespond(i)

SpecConc == InitConc /\ [][NextConc]_vars

\* -------------------------------------------------------------- yearmonth
\* The class yearmonth as it holds its value, a year and a month, and its
\* arithmetic by way of the ordinal year * 12 + month - 1. A call that raises
\* gives the exception in place of its value.

\* datetime.MINYEAR, datetime.MAXYEAR, _MAXORDINAL
MINYEAR == 1
MAXYEAR == 9999
MAXORDINAL == MAXYEAR * 12 + 12

ValueError == [exc |-> "ValueError"]
OverflowError == [exc |-> "OverflowError"]
Raised(r) == "exc" \in DOMAIN r

\* yearmonth.__init__
yearmonth(year, month) ==
    IF ~(MINYEAR <= year /\ year <= MAXYEAR) THEN ValueError
    ELSE IF ~(1 <= month /\ month <= 12) THEN ValueError
    ELSE [year |-> year, month |-> month]

\* _fromordinal that takes the remainder for the month as it is
fromordinal_from_zero(n) == yearmonth(n \div 12, n % 12)

\* yearmonth._fromordinal: divmod(n, 12)
fromordinal(n) == yearmonth(n \div 12, (n % 12) + 1)

\* yearmonth._toordinal
toordinal(a) == a.year * 12 + (a.month - 1)

\* yearmonth.__add__ with an int
ym_add(a, other) ==
    LET o == toordinal(a) + other
    IN IF 0 <= o /\ o <= MAXORDINAL THEN fromordinal(o) ELSE OverflowError

\* yearmonth.__sub__ with an int, and with a yearmonth
ym_sub_int(a, other) == ym_add(a, -other)
ym_sub(a, b) == toordinal(a) - toordinal(b)

\* yearmonth._cmp: _cmp((y, m), (y2, m2)), the comparison of tuples
ym_cmp(a, b) ==
    IF a.year = b.year /\ a.month = b.month THEN 0
    ELSE IF a.year > b.year \/ (a.year = b.year /\ a.month > b.month) THEN 1
    ELSE -1

\* __eq__, __le__, __lt__, __ge__, __gt__
ym_eq(a, b) == ym_cmp(a, b) = 0
ym_le(a, b) == ym_cmp(a, b) <= 0
ym_lt(a, b) == ym_cmp(a, b) < 0
ym_ge(a, b) == ym_cmp(a, b) >= 0
ym_gt(a, b) == ym_cmp(a, b) > 0

\* the calendar of datetime.date
IsLeap(y) == (y % 4 = 0 /\ y % 100 # 0) \/ y % 400 = 0
DaysInMonth(y, m) ==
    IF m = 2 THEN (IF IsLeap(y) THEN 29 ELSE 28)
    ELSE IF m \in {4, 6, 9, 11} THEN 30 ELSE 31

\* datetime.date(year, month, day)
date(year, month, day) ==
    IF ~(MINYEAR <= year /\ year <= MAXYEAR) \/ month \notin 1..12 THEN ValueError
    ELSE IF day \notin 1..DaysInMonth(year, month) THEN ValueError
    ELSE [year |-> year, month |-> month, day |-> day]

\* date + timedelta(days=n) for n >= 0
RECURSIVE date_plus(_, _)
date_plus(d, n) ==
    IF d.day + n <= DaysInMonth(d.year, d.month) THEN [d EXCEPT !.day = d.day + n]
    ELSE IF d.year = MAXYEAR /\ d.month = 12 THEN OverflowError
    ELSE date_plus([year |-> IF d.month = 12 THEN d.year + 1 ELSE d.year,
                    month |-> IF d.month = 12 THEN 1 ELSE d.month + 1,
                    day |-> 1],
                   n - (DaysInMonth(d.year, d.month) - d.day) - 1)

\* yearmonth.date(day): for day < 0, (self + 1).date() - timedelta(days=day),
\* the subtraction of a negative timedelta
ym_date(a, day) ==
    IF day >= 0 THEN date(a.year, a.month, day)
    ELSE LET nxt == ym_add(a, 1)
         IN IF Raised(nxt) THEN nxt
            ELSE date_plus(date(nxt.year, nxt.month, 1), -day)

\* the integers added to and subtracted from a yearmonth: up to MaxStep months
MaxStep == 13

\* sample years: the first and the last year, and two years next to each other
YmYears == {MINYEAR, 2023, 2024, MAXYEAR}
YearMonths == {yearmonth(y, m) : y \in YmYears, m \in 1..12}
DayArgs == {-2, -1, 0, 1, 31}

\* a + k
YmAdd(a, k) ==
    /\ operands = NoOperands
    /\ operands' = [op |-> "add", a |-> a, k |-> k, res |-> ym_add(a, k)]
    /\ UNCHANGED <<statuses, files, at_start, at_end, exc, yielded, camera, cal, walk,
                   tasks, hass, handler, forwarding>>

\* a - k
YmSub(a, k) ==
    /\ operands = NoOperands
    /\ operands' = [op |-> "sub", a |-> a, k |-> k, res |-> ym_sub_int(a, k)]
    /\ UNCHANGED <<statuses, files, at_start, at_end, exc, yielded, camera, cal, walk,
                   tasks, hass, handler, forwarding>>

\* a - b
YmDiff(a, b) ==
    /\ operands = NoOperands
    /\ operands' = [op |-> "diff", a |-> a, b |-> b, res |-> ym_sub(a, b)]
    /\ UNCHANGED <<statuses, files, at_start, at_end, exc, yielded, camera, cal, walk,
                   tasks, hass, handler, forwarding>>

\* a == b, a <= b, a < b, a >= b, a > b
YmCompare(a, b) ==
    /\ operands = NoOperands
    /\ operands' = [op |-> "cmp", a |-> a, b |-> b,
                    eq |-> ym_eq(a, b), le |-> ym_le(a, b), lt |-> ym_lt(a, b),
                    ge |-> ym_ge(a, b), gt |-> ym_gt(a, b)]
    /\ UNCHANGED <<statuses, files, at_start, at_end, exc, yielded, camera, cal, walk,
                   tasks, hass, handler, forwarding>>

\* a.date(day)
YmDate(a, day) ==
    /\ operands = NoOperands
    /\ operands' = [op |-> "date", a |-> a, day |-> day, res |-> ym_date(a, day)]
    /\ UNCHANGED <<statuses, files, at_start, at_end, exc, yielded, camera, cal, walk,
                   tasks, hass, handler, forwarding>>

\* the caller has taken the result
YmTaken ==
    /\ operands # NoOperands
    /\ operands' = NoOperands
    /\ UNCHANGED <<statuses, files, at_start, at_end, exc, yielded, camera, cal, walk,
                   tasks, hass, handler, forwarding>>

InitYm == Init

NextYm ==
    \/ \E a \in YearMonths, k \in (-MaxStep)..MaxStep : YmAdd(a, k)
    \/ \E a \in YearMonths, k \in (-MaxStep)..MaxStep : YmSub(a, k)
    \/ \E a, b \in YearMonths : YmDiff(a, b)
    \/ \E a, b \in YearMonths : YmCompare(a, b)
    \/ \E a \in YearMonths, day \in DayArgs : YmDate(a, day)
    \/ YmTaken

SpecYm == InitYm /\ [][NextYm]_vars

\* --------------------------------------------------------- cache registry
\* helpers/cache.py: hass.data[DOMAIN][SOURCE_KEY][entry_id][channel] is the
\* SearchCache of a channel. A SearchCache instance is the number of its
\* construction; 0 stands for None.

\* the config entries of the camera integration, the channels of a camera
\* (written as strings: a dict of channels may be asked for an entry id, and
\* a str never equals an int), and the config entries of this integration
Entries == {"e1", "e2"}
Channels == {"ch0", "ch1"}
OwnEntries == {"x1"}

\* a construction that hands out the one instance again
make_cache_same(made) == 1

\* line 37, SearchCache(): the instance constructed after made others
make_cache(made) == made + 1

\* lines 30-31, clear_on_unload: cache_data.pop(entry_id, None), cache_data
\* being the dict of the channels of entry_id
clear_on_unload(h, entry_id) ==
    [h EXCEPT !.media[entry_id] = DictPop(h.media[entry_id], entry_id)]

\* async_get_cache(hass, entry_id, channel, create): hass.data after the call,
\* the instance returned and the exception raised
async_get_cache(h, entry_id, channel, create) ==
    IF ~h.domain THEN [h |-> h, ret |-> 0, exc |-> "AttributeError", fresh |-> FALSE]
    ELSE LET h1 == IF create THEN [h EXCEPT !.source = TRUE] ELSE h
         IN IF ~h1.source \/ (entry_id \notin DOMAIN h1.media /\ ~create)
            THEN [h |-> h1, ret |-> 0, exc |-> "", fresh |-> FALSE]
            ELSE LET h2 == IF entry_id \in DOMAIN h1.media THEN h1
                           ELSE [h1 EXCEPT !.media = DictSet(h1.media, entry_id, <<>>),
                                           !.on_unload = h1.on_unload \cup {entry_id}]
                     cache_data == h2.media[entry_id]
                 IN IF channel \in DOMAIN cache_data
                    THEN [h |-> h2, ret |-> cache_data[channel], exc |-> "", fresh |-> FALSE]
                    ELSE IF ~create THEN [h |-> h2, ret |-> 0, exc |-> "", fresh |-> FALSE]
                    ELSE [h |-> [h2 EXCEPT !.media[entry_id] =
                                     DictSet(cache_data, channel, make_cache(h2.made)),
                                           !.made = h2.made + 1],
                          ret |-> make_cache(h2.made), exc |-> "", fresh |-> TRUE]

\* the instances hass.data holds for an entry
Instances(h, entry_id) ==
    IF entry_id \in DOMAIN h.media
    THEN {h.media[entry_id][ch] : ch \in DOMAIN h.media[entry_id]}
    ELSE {}

Others == <<statuses, files, at_start, at_end, exc, yielded, camera, cal, walk,
            tasks, operands, handler, forwarding>>

\* __init__.py line 36, async_setup_entry of this integration
SetupEntry(x) ==
    /\ x \notin hass.own
    /\ hass' = [hass EXCEPT !.domain = TRUE, !.own = hass.own \cup {x},
                            !.last = [op |-> "setup", entry |-> x]]
    /\ UNCHANGED Others

\* __init__.py lines 88-92, async_unload_entry of this integration
UnloadEntry(x) ==
    /\ x \in hass.own
    /\ hass' = [hass EXCEPT !.own = hass.own \ {x},
                            !.last = [op |-> "unload_own", entry |-> x]]
    /\ UNCHANGED Others

\* a caller asks for the cache of a channel
GetCache(entry_id, channel, create) ==
    /\ LET r == async_get_cache(hass, entry_id, channel, create)
       IN hass' = [r.h EXCEPT
                      !.torn = IF create /\ r.exc = "" THEN hass.torn \ {entry_id}
                               ELSE hass.torn,
                      !.returned = IF create /\ r.exc = ""
                                   THEN hass.returned \cup {<<entry_id, channel, r.ret>>}
                                   ELSE hass.returned,
                      !.last = [op |-> "get", entry |-> entry_id, channel |-> channel,
                                create |-> create, ret |-> r.ret, exc |-> r.exc,
                                fresh |-> r.fresh]]
    /\ UNCHANGED Others

\* the config entry entry_id is unloaded: its on-unload callbacks run and are
\* dropped
EntryUnloads(entry_id) ==
    /\ entry_id \in hass.on_unload
    /\ hass' = [clear_on_unload(hass, entry_id) EXCEPT
                   !.on_unload = hass.on_unload \ {entry_id},
                   !.torn = hass.torn \cup {entry_id},
                   !.retired = hass.retired \cup Instances(hass, entry_id),
                   !.last = [op |-> "unload", entry |-> entry_id]]
    /\ UNCHANGED Others

InitReg == Init

NextReg ==
    \/ \E x \in OwnEntries : SetupEntry(x)
    \/ \E x \in OwnEntries : UnloadEntry(x)
    \/ \E e \in Entries, ch \in Channels, create \in BOOLEAN : GetCache(e, ch, create)
    \/ \E e \in Entries : EntryUnloads(e)

SpecReg == InitReg /\ [][NextReg]_vars

\* -------------------------------------------------------- entry forwarding
\* helpers/reolink.py: async_forward_reolink_entries hands every config entry
\* of the camera integration to a handler once the entry is LOADED;
\* _forward_reolink_entry waits for an entry that is not with a listener on
\* SIGNAL_CONFIG_ENTRY_CHANGED. The config entries, their states and the
\* dispatcher belong to the host platform: an entry changes state or is
\* disabled at any time, a signal carries one entry and is delivered to every
\* connected listener at once.

EntryStates == {"LOADED", "NOT_LOADED"}

\* a forwarding chain <<origin, entry>>: the entry async_forward_reolink_entries
\* began with and the entry a coroutine or a listener of the chain is bound to
Chains == Entries \X Entries

\* entry.state == LOADED and entry.disabled_by is None
Ready(f, e) == f.state[e] = "LOADED" /\ ~f.disabled[e]

\* _forward_reolink_entry without its tests of disabled_by and state
forward_reolink_entry_unready(f, origin, entry) ==
    [f EXCEPT !.invoked[entry] = @ + 1,
              !.calls = @ \cup {[origin |-> origin, entry |-> entry,
                                 state |-> f.state[entry],
                                 disabled |-> f.disabled[entry],
                                 woken |-> f.woken[entry]]},
              !.woken[entry] = FALSE]

\* lines 34-52: one run of _forward_reolink_entry(hass, entry, handler) up to
\* its return or to handler(entry); in_task only silences a log line
forward_reolink_entry(f, origin, entry) ==
    IF f.disabled[entry] THEN [f EXCEPT !.woken[entry] = FALSE]
    ELSE IF f.state[entry] # "LOADED"
    THEN [f EXCEPT !.listeners[<<origin, entry>>] = @ + 1, !.woken[entry] = FALSE]
    ELSE [f EXCEPT !.invoked[entry] = @ + 1,
                   !.calls = @ \cup {[origin |-> origin, entry |-> entry,
                                      state |-> f.state[entry],
                                      disabled |-> f.disabled[entry],
                                      woken |-> f.woken[entry]]},
                   !.woken[entry] = FALSE]

\* retry without cleanup(): the listener stays connected
retry_keeping(f, chain, retry_entry) ==
    IF retry_entry # chain[2] THEN f
    ELSE [f EXCEPT !.tasks[<<chain[1], retry_entry>>] = @ + 1]

\* retry without the test of the entry id
retry_any(f, chain, retry_entry) ==
    [f EXCEPT !.listeners[chain] = @ - 1,
              !.tasks[<<chain[1], retry_entry>>] = @ + 1]

\* lines 39-45: the listener of the chain receives a signal for retry_entry
retry(f, chain, retry_entry) ==
    IF retry_entry # chain[2] THEN f
    ELSE [f EXCEPT !.listeners[chain] = @ - 1,
                   !.tasks[<<chain[1], retry_entry>>] = @ + 1]

\* the dispatcher calls the k listeners of a chain, then those of the chains S
RECURSIVE dispatch(_, _, _, _, _)
dispatch(f, S, chain, k, retry_entry) ==
    IF k > 0 THEN dispatch(retry(f, chain, retry_entry), S, chain, k - 1, retry_entry)
    ELSE IF S = {} THEN f
    ELSE LET next == CHOOSE c \in S : TRUE
         IN dispatch(f, S \ {next}, next, f.listeners[next], retry_entry)

\* the entries as async_forward_reolink_entries may find them
Forwardings ==
    {[pc |-> "idle", state |-> st, disabled |-> dis,
      listeners |-> [c \in Chains |-> 0], tasks |-> [c \in Chains |-> 0],
      invoked |-> [e \in Entries |-> 0], calls |-> {},
      woken |-> [e \in Entries |-> FALSE],
      last |-> [op |-> "none", entry |-> ""]] :
        st \in [Entries -> EntryStates], dis \in [Entries -> BOOLEAN]}

UnchangedByForwarding ==
    <<statuses, files, at_start, at_end, exc, yielded, camera, cal, walk,
      tasks, hass, operands, handler>>

\* lines 55-66: asyncio.gather starts a coroutine for every entry
ForwardEntries ==
    /\ forwarding.pc = "idle"
    /\ forwarding' = [forwarding EXCEPT !.pc = "forwarded",
                                        !.tasks = [c \in Chains |-> IF c[1] = c[2] THEN 1 ELSE 0],
                                        !.last = [op |-> "forward", entry |-> ""]]
    /\ UNCHANGED UnchangedByForwarding

\* a coroutine of the chain runs _forward_reolink_entry for the entry: one of
\* gather, or a task a listener created
RunTask(origin, entry) ==
    /\ forwarding.tasks[<<origin, entry>>] > 0
    /\ LET f == [forwarding EXCEPT !.tasks[<<origin, entry>>] = @ - 1,
                                   !.last = [op |-> "run", entry |-> entry]]
       IN forwarding' = forward_reolink_entry(f, origin, entry)
    /\ UNCHANGED UnchangedByForwarding

\* SIGNAL_CONFIG_ENTRY_CHANGED is sent with the entry; woken: the signal found
\* the entry LOADED and enabled and a listener bound to it, whose task is to run
Signal(entry) ==
    /\ forwarding.pc = "forwarded"
    /\ LET f == [forwarding EXCEPT
                    !.woken[entry] = @ \/ (/\ Ready(forwarding, entry)
                                          /\ \E c \in Chains :
                                                c[2] = entry /\ forwarding.listeners[c] > 0),
                    !.last = [op |-> "signal", entry |-> entry]]
       IN forwarding' = dispatch(f, Chains, <<entry, entry>>, 0, entry)
    /\ UNCHANGED UnchangedByForwarding

\* the entry is loaded, unloaded, disabled or enabled
EntryTurns(entry, st, dis) ==
    /\ forwarding.pc = "forwarded"
    /\ <<st, dis>> # <<forwarding.state[entry], forwarding.disabled[entry]>>
    /\ forwarding' = [forwarding EXCEPT !.state[entry] = st, !.disabled[entry] = dis,
                                        !.last = [op |-> "turn", entry |-> entry]]
    /\ UNCHANGED UnchangedByForwarding

InitFwd ==
    /\ statuses = EmptyOD
    /\ files = EmptyOD
    /\ at_start = FALSE
    /\ at_end = FALSE
    /\ exc = ""
    /\ yielded = <<>>
    /\ camera = {}
    /\ cal = CalIdle
    /\ walk = WalkIdle
    /\ tasks = TasksIdle
    /\ hass = NoData
    /\ operands = NoOperands
    /\ handler = HandlerIdle
    /\ forwarding \in Forwardings

NextFwd ==
    \/ ForwardEntries
    \/ \E c \in Chains : RunTask(c[1], c[2])
    \/ \E e \in Entries : Signal(e)
    \/ \E e \in Entries, st \in EntryStates, dis \in BOOLEAN : EntryTurns(e, st, dis)

SpecFwd == InitFwd /\ [][NextFwd]_vars

\* hass.create_task and asyncio.gather: a coroutine that was started runs
FairFwd == \A c \in Chains : WF_vars(RunTask(c[1], c[2]))

SpecFwdLive == InitFwd /\ [][NextFwd]_vars /\ FairFwd

\* ----------------------------------------------------------------- claims
\* the recordings a cache stores
Recs(c) == UNION {{c.files.items[d].items[t] : t \in DOMAIN c.files.items[d].items} :
                     d \in DOMAIN c.files.items}

InRange(r, start, end) ==
    DateTimeLe(start, r.start_time) /\ DateTimeLt(r.start_time, end)

SlicePairs == {p \in DateTimes \X DateTimes : DateTimeLe(p[1], p[2])}

\* C1: merging the same batch twice leaves the cache as merging it once does
\* (same status keys, statuses, date and time keys, recordings), for every
\* reachable cache and every batch, empty-days statuses included.
MergeIdempotent ==
    \A b \in Batches :
        LET once == extend(Cache, b)
        IN extend(once, b) = once

\* C2: a status for month M whose days are a strict subset of the stored
\* status of M removes every recording of the removed days, keeps every other
\* day's recordings as they were, and becomes the stored status of M.
Shrinks(s) ==
    /\ s.ym \in DOMAIN statuses.items
    /\ s.days \subseteq statuses.items[s.ym].days
    /\ s.days # statuses.items[s.ym].days

RemovedDates(s) == {ymdate(s.ym, d) : d \in statuses.items[s.ym].days \ s.days}

StatusShrink ==
    \A s \in AllStatuses :
        Shrinks(s) =>
            LET c == append(Cache, s)
            IN /\ c.exc = ""
               /\ \A d \in RemovedDates(s) : DictGet(c.files.items, d) = None
               /\ \A d \in Dates \ RemovedDates(s) :
                      DictGet(c.files.items, d) = DictGet(files.items, d)
               /\ c.statuses.items =
                      [statuses.items EXCEPT ![s.ym] = s]

\* C2 witness: a shrinking status whose merge drops a recording of a removed
\* day while a recording of a retained day is cached
StatusShrinkWitness ==
    \E s \in AllStatuses :
        /\ Shrinks(s)
        /\ \E r \in Recs(Cache) : dtdate(r.start_time) \in RemovedDates(s)
        /\ \E r \in Recs(Cache) :
              fromdate(r.start_time) = s.ym /\ r.start_time[2] \in s.days
        /\ Recs(append(Cache, s)) # Recs(Cache)

\* C3: a recording is in files for date D only if statuses holds D's month.
IndexStatusInvariant ==
    \A d \in DOMAIN files.items : fromdate(d) \in DOMAIN statuses.items

\* C4: slice(start, end) yields only recordings r with start <= r.start < end.
SliceSound ==
    \A p \in SlicePairs :
        \A r \in Range(slice(Cache, p[1], p[2]).out) : InRange(r, p[1], p[2])

\* C5: slice(start, end) yields every cached recording r with
\* start <= r.start < end whose month has a stored status, also when start or
\* end lie outside the cached months. Stated for the recordings of the days
\* the stored status lists, the only ones slice walks.
Listed(r) ==
    /\ fromdate(r.start_time) \in DOMAIN statuses.items
    /\ r.start_time[2] \in statuses.items[fromdate(r.start_time)].days

SliceComplete ==
    \A p \in SlicePairs :
        \A r \in Recs(Cache) :
            (InRange(r, p[1], p[2]) /\ Listed(r))
                => r \in Range(slice(Cache, p[1], p[2]).out)

\* C6: slice filters by time of day on the first and the last day of the range
\* only: of a day strictly between them it yields every recording or none.
SliceBoundaryDays ==
    \A p \in SlicePairs :
        \A d \in DOMAIN files.items :
            (DateLe(dtdate(p[1]), d) /\ dtdate(p[1]) # d
                    /\ DateLe(d, dtdate(p[2])) /\ dtdate(p[2]) # d)
                => LET out == Range(slice(Cache, p[1], p[2]).out)
                       day == {r \in Recs(Cache) : dtdate(r.start_time) = d}
                   IN day \subseteq out \/ day \cap out = {}

\* C7: what slice yields is in strictly ascending start-time order, no
\* recording twice.
SliceAscending ==
    \A i, j \in 1..Len(yielded) :
        i < j => DateTimeLt(yielded[i].start_time, yielded[j].start_time)

\* C7 witness: a slice has yielded two recordings of one day
SliceAscendingWitness ==
    /\ Len(yielded) >= 2
    /\ dtdate(yielded[1].start_time) = dtdate(yielded[2].start_time)

\* C8: slice yields nothing of a day whose month has no stored status, even
\* when files holds recordings of that day.
SliceNeedsStatus ==
    \A r \in Range(yielded) : fromdate(r.start_time) \in DOMAIN statuses.items

\* C8 witness: a slice has yielded a recording while its range held a cached
\* recording of a month without status
SliceNeedsStatusWitness ==
    /\ yielded # <<>>
    /\ \E p \in SlicePairs :
          /\ slice(Cache, p[1], p[2]).out = yielded
          /\ \E r \in Recs(Cache) :
                /\ InRange(r, p[1], p[2])
                /\ fromdate(r.start_time) \notin DOMAIN statuses.items

\* C9: a slice call leaves statuses, files, at_start and at_end as they were
\* and yields a finite list, no longer than the number of cached recordings.
SliceReadOnly ==
    [][(yielded = <<>> /\ yielded' # <<>>) =>
          /\ UNCHANGED <<statuses, files, at_start, at_end>>
          /\ Len(yielded') <= Cardinality(Recs(Cache))]_vars

\* C9 witness: a slice has yielded recordings of a cache that holds recordings
\* it did not yield
SliceReadOnlyWitness ==
    /\ yielded # <<>>
    /\ Range(yielded) # Recs(Cache)
    /\ exc = ""

\* C10: trim(k) then trim(k) raises nothing and the second call changes
\* nothing; trim of an absent key changes nothing.
KeyAbsent(k) ==
    IF Len(k) = 1 THEN k[1] \notin DOMAIN statuses.items
    ELSE IF Len(k) = 2 THEN k \notin DOMAIN files.items
    ELSE \/ dtdate(k) \notin DOMAIN files.items
         \/ dttime(k) \notin DOMAIN files.items[dtdate(k)].items

TrimIdempotent ==
    \A k \in TrimKeys :
        LET once == trim(Cache, k)
            twice == trim(once, k)
        IN /\ once.exc = ""
           /\ twice = once
           /\ KeyAbsent(k) => once = Cache

\* C10 witness: a trim has emptied a day (its date is still in the keys of
\* files) and trims of a month, a date and a datetime would each change the
\* cache
TrimIdempotentWitness ==
    /\ \E i \in 1..Len(files.keys) : files.keys[i] \notin DOMAIN files.items
    /\ \E k \in TrimKeys : Len(k) = 1 /\ trim(Cache, k) # Cache
    /\ \E k \in TrimKeys : Len(k) = 3 /\ trim(Cache, k) # Cache

\* C11: after trim(M) of a month M the cache holds no status of M and no
\* recording whose date falls in M, in every reachable cache (recordings of
\* days the status of M does not list, empty and absent statuses included).
TrimMonthDropsAll ==
    \A m \in Months :
        LET c == trim(Cache, <<m>>)
        IN /\ m \notin DOMAIN c.statuses.items
           /\ \A r \in Recs(c) : fromdate(r.start_time) # m

\* C12: trim(D) of a date D removes every recording of D and leaves as they
\* were the status of D's month, every other status, the recordings of every
\* other date and the flags at_start and at_end.
TrimDateFrame ==
    \A d \in Dates :
        LET c == trim(Cache, d)
        IN /\ c.exc = ""
           /\ \A r \in Recs(c) : dtdate(r.start_time) # d
           /\ c.statuses = statuses
           /\ \A x \in Dates \ {d} : DictGet(c.files.items, x) = DictGet(files.items, x)
           /\ c.at_start = at_start /\ c.at_end = at_end

\* C12 witness: a date with recordings whose month has a status, while another
\* date of the same month holds recordings too
TrimDateFrameWitness ==
    \E d \in Dates :
        /\ \E r \in Recs(Cache) : dtdate(r.start_time) = d
        /\ fromdate(d) \in DOMAIN statuses.items
        /\ \E r \in Recs(Cache) :
              fromdate(r.start_time) = fromdate(d) /\ dtdate(r.start_time) # d
        /\ Recs(trim(Cache, d)) # Recs(Cache)

\* the recordings a cache holds of date d, by start instant
CachedOn(d) ==
    IF d \in DOMAIN files.items
    THEN {combine(d, t) : t \in DOMAIN files.items[d].items}
    ELSE {}

\* the dates of the range of a _cache_events frame that the camera marks
\* present: start <= date < end
PresentDates(ce) ==
    {d \in {dtdate(x) : x \in camera} : DateLe(ce.start, d) /\ DateLe(d, ce.end) /\ d # ce.end}

NoProgressBounded ==
    cal.pc = "await" => cal.ce.n <= Cardinality(cal.ce.possible) + 2

\* C15: when a _cache_events call returns, every date of its range that the
\* camera marks present has in the cache no recording or every recording the
\* camera holds of that date.
DayComplete ==
    cal.ret # None =>
        \A d \in PresentDates(cal.ret) :
            \/ CachedOn(d) = {}
            \/ CachedOn(d) = {x \in camera : dtdate(x) = d}

\* C16: async_get_events(start, end) returns an event for every recording the
\* camera holds in [start, end), whatever the cache held before the call.
AllEventsInRange ==
    cal.pc = "returned" =>
        \A x \in camera :
            (DateTimeLe(cal.req[1], x) /\ DateTimeLt(x, cal.req[2]))
                => file_to_event(VOD_file(x)) \in Range(cal.events)

\* C17: a remote query that raises ends the call with the exception and
\* leaves statuses and files as the last merge left them.
FailedQueryKeepsCache ==
    [][(cal.pc = "await" /\ cal'.pc = "raised" /\ cal'.exc = "ReolinkError")
          => UNCHANGED <<statuses, files>>]_vars

\* C17 witness: the second query of a _cache_events call has raised, after
\* the answer to its first query was merged
FailedQueryKeepsCacheWitness ==
    /\ cal.pc = "raised"
    /\ cal.exc = "ReolinkError"
    /\ cal.ce # None
    /\ cal.ce.n > 1
    /\ cal.ce.found # {}

\* the answered queries of the running walk in one direction
Asked(dir) == {i \in 1..Len(walk.asked) : walk.asked[i].dir = dir}
\* the walk has a query pending in that direction
Pending(dir) == walk.pc = "await" /\ walk.dir = dir

\* C18: when the camera answers some month with an empty status, each walk
\* ends within a bounded number of queries: it takes no more than one answer
\* without a recorded day (no status, or a status with no day), and a browse
\* that has returned has set at_start and at_end.
WalksTerminate ==
    /\ \A dir \in {"back", "fwd"} :
          Cardinality({i \in Asked(dir) : walk.asked[i].answer \in {"none", "empty"}}) <= 1
    /\ walk.pc = "done" => (at_start /\ at_end)

\* C19: a backward walk that receives for month M a status with no day sets
\* at_start and issues no query for a month before M.
BackwardStopsOnEmpty ==
    \A i \in Asked("back") :
        walk.asked[i].answer = "empty" =>
            /\ at_start
            /\ ~Pending("back")
            /\ \A j \in Asked("back") : j <= i

\* C20 as claimed: the forward walk never queries a month after the current
\* one and stops with at_end set when the next step would pass the current
\* month or when an answer holds no status that is not already cached.
ForwardStopsOnNothingNew ==
    /\ \A i \in Asked("fwd") : walk.asked[i].ym <= today_ym
    /\ Pending("fwd") => walk.ym <= today_ym
    /\ \A i \in Asked("fwd") :
          (walk.asked[i].ym = today_ym \/ ~walk.asked[i].new) =>
              /\ at_end
              /\ ~Pending("fwd")
              /\ \A j \in Asked("fwd") : j <= i

\* C20 as amended: the forward walk never queries a month after the current
\* one and stops with at_end set when the next step would pass the current
\* month or when a query raises or is answered with no status at all; an
\* answer of statuses that are already cached does not stop it.
ForwardWalk ==
    /\ \A i \in Asked("fwd") : walk.asked[i].ym <= today_ym
    /\ Pending("fwd") => walk.ym <= today_ym
    /\ \A i \in Asked("fwd") :
          (walk.asked[i].ym = today_ym \/ walk.asked[i].answer \in {"fail", "none"}) =>
              /\ at_end
              /\ ~Pending("fwd")
              /\ \A j \in Asked("fwd") : j <= i
    /\ \A i \in Asked("fwd") :
          (walk.asked[i].ym < today_ym /\ walk.asked[i].answer \in {"empty", "days"}) =>
              \/ (Pending("fwd") /\ walk.ym = walk.asked[i].ym + 1)
              \/ \E j \in Asked("fwd") : j = i + 1 /\ walk.asked[j].ym = walk.asked[i].ym + 1

\* C20 witness: a forward walk that began at a cached month before the current
\* one has passed an answer that brought nothing new and has ended at the
\* current month with at_end set
ForwardWalkWitness ==
    /\ walk.pc = "done"
    /\ at_end
    /\ \E i, j \in Asked("fwd") :
          /\ i < j
          /\ ~walk.asked[i].new
          /\ walk.asked[i].answer = "days"
          /\ walk.asked[j].ym = today_ym

\* C21: whenever at_start is true, the camera holds no recording in a month
\* before the earliest cached month; a query that raises does not make
\* at_start true.
AtStartMeaning ==
    (at_start /\ statuses.keys # <<>>) =>
        \A x \in camera : x[1] >= statuses.keys[1]

\* C22: whenever at_end is true, the newest cached month is the current month,
\* also after a query of the forward walk has raised.
AtEndMeaning ==
    at_end => (statuses.keys # <<>> /\ statuses.keys[Len(statuses.keys)] = today_ym)

\* C24: for any two batches A and B, statuses of the same month that differ
\* included, extend(A) then extend(B) leaves the cache as extend(B) then
\* extend(A) does.
MergeOrderIndependent ==
    \A a, b \in Batches :
        extend(extend(Cache, a), b) = extend(extend(Cache, b), a)

\* C25: over any sequence of async_get_cache calls with create, two calls
\* return the same instance if and only if they name the same entry and the
\* same channel.
OneCachePerChannel ==
    \A r1, r2 \in hass.returned :
        (r1[3] = r2[3]) <=> (r1[1] = r2[1] /\ r1[2] = r2[2])

\* C25 witness: every channel of every entry has its cache, an entry has been
\* unloaded, and the last call returned an instance made by an earlier call
OneCachePerChannelWitness ==
    /\ Cardinality(hass.returned) = Cardinality(Entries) * Cardinality(Channels)
    /\ hass.retired # {}
    /\ hass.last.op = "get"
    /\ hass.last.create
    /\ ~hass.last.fresh
    /\ hass.last.ret # 0

\* C26: once the on-unload callback of an entry has run, a call without
\* create returns None for each of its channels, and the next call with
\* create returns an instance that is not one of those the entry had.
CacheTornDown ==
    /\ \A e \in hass.torn : \A ch \in Channels :
          async_get_cache(hass, e, ch, FALSE).ret = 0
    /\ (hass.last.op = "get" /\ hass.last.create) => hass.last.ret \notin hass.retired

\* C28: date(-1) of a yearmonth is the last day of that month.
DateFromEnd ==
    (operands.op = "date" /\ operands.day = -1) =>
        operands.res = [year |-> operands.a.year, month |-> operands.a.month,
                        day |-> DaysInMonth(operands.a.year, operands.a.month)]

\* C29: comparison of yearmonths is the total order on (year, month), which
\* is the order of the ordinals; where a + k is in range, (a + k) - k = a and
\* (a + k) - a = k, its month is in 1..12, and a + 1 is the month after a,
\* January of the next year after December.
YearMonthOrder ==
    /\ (operands.op = "add" /\ ~Raised(operands.res)) =>
          /\ operands.res.month \in 1..12
          /\ operands.res.year \in MINYEAR..MAXYEAR
          /\ ym_sub_int(operands.res, operands.k) = operands.a
          /\ ym_sub(operands.res, operands.a) = operands.k
          /\ operands.k = 1 =>
                operands.res = IF operands.a.month = 12
                               THEN [year |-> operands.a.year + 1, month |-> 1]
                               ELSE [year |-> operands.a.year, month |-> operands.a.month + 1]
    /\ (operands.op = "sub" /\ ~Raised(operands.res)) =>
          /\ operands.res.month \in 1..12
          /\ ym_add(operands.res, operands.k) = operands.a
          /\ ym_sub(operands.a, operands.res) = operands.k
    /\ operands.op = "diff" => ym_add(operands.b, operands.res) = operands.a
    /\ operands.op = "cmp" =>
          /\ operands.le <=> (toordinal(operands.a) <= toordinal(operands.b))
          /\ operands.le <=> \/ operands.a.year < operands.b.year
                             \/ /\ operands.a.year = operands.b.year
                                /\ operands.a.month <= operands.b.month
          /\ operands.eq <=> (operands.a = operands.b)
          /\ operands.le \/ operands.ge
          /\ (operands.le /\ operands.ge) => operands.eq
          /\ operands.lt <=> (operands.le /\ ~operands.eq)
          /\ operands.gt <=> ~operands.le
          /\ operands.ge <=> ~operands.lt
          /\ \A c \in YearMonths :
                (operands.le /\ ym_le(operands.b, c)) => ym_le(operands.a, c)

\* C29 witness: a step of more than a year back from a January has crossed
\* two year ends
YearMonthOrderWitness ==
    /\ operands.op = "add"
    /\ operands.a = [year |-> 2024, month |-> 1]
    /\ operands.k = -MaxStep
    /\ operands.res = [year |-> 2022, month |-> 12]

\* C27: an item of a batch for which append raises is dropped, and every
\* other item of the batch, before and after it, is merged.
MalformedDropped ==
    \A f, g \in AllFiles :
        LET c == extend(Cache, << <<f, Malformed, g>> >>)
            rest == extend(Cache, << <<f, g>> >>)
        IN c.statuses = rest.statuses /\ c.files = rest.files

\* C30: appending a recording whose start is that of a cached recording
\* replaces the stored value and adds no second entry, and len(cache) is the
\* number of distinct start instants the cache holds (appended and not
\* removed since).
LastWriteWins ==
    /\ \A dt \in DateTimes :
          LET f == [start_time |-> dt, name |-> "later"]
              c == append(Cache, f)
          IN /\ c.exc = ""
             /\ c.files.items[dtdate(dt)].items[dttime(dt)] = f
             /\ {r.start_time : r \in Recs(c)} = {r.start_time : r \in Recs(Cache)} \cup {dt}
             /\ Cardinality(Recs(c)) = Cardinality({r.start_time : r \in Recs(c)})
             /\ Cardinality({i \in 1..Len(c.files.items[dtdate(dt)].keys) :
                                c.files.items[dtdate(dt)].keys[i] = dttime(dt)}) = 1
    /\ cache_len(Cache, 1).exc = ""
    /\ cache_len(Cache, 1).val = Cardinality({r.start_time : r \in Recs(Cache)})

\* the cache one call leaves when it runs alone on cache c
Alone(c, i) ==
    run_cache_events(c, camera,
                     cache_events(tasks.r[i][1], tasks.r[i][2]),
                     tasks.limit, tasks.omit)

\* C23: when two _cache_events calls that interleave at their remote queries
\* against a static camera have both returned, statuses and files are what
\* the two calls leave when one runs after the other, in either order.
ConcurrentConverge ==
    (tasks.pc = "run" /\ tasks.t[1].done /\ tasks.t[2].done) =>
        LET ab == Alone(Alone(tasks.c0, 1), 2)
            ba == Alone(Alone(tasks.c0, 2), 1)
        IN /\ statuses = ab.statuses /\ files = ab.files
           /\ statuses = ba.statuses /\ files = ba.files

\* C23 witness: two calls for different overlapping ranges have both returned,
\* one after more than one query, the answers having alternated between them;
\* the cache holds recordings and has lost one it held at the start
ConcurrentConvergeWitness ==
    /\ tasks.pc = "run"
    /\ tasks.t[1].done /\ tasks.t[2].done
    /\ tasks.t[1].ce.n > 1 \/ tasks.t[2].ce.n > 1
    /\ tasks.r[1][1] # tasks.r[2][1]
    /\ tasks.r[1][2] # tasks.r[2][2]
    /\ tasks.switches >= 2
    /\ Recs(Cache) # {}
    /\ \E r \in Recs(tasks.c0) : r \notin Recs(Cache)

\* an OrderedDict of yearmonths or of times is well formed: _keys strictly
\* ascending (so without duplicates) and the key set of _items
WellFormed(od) ==
    /\ \A i, j \in 1..Len(od.keys) : i < j => od.keys[i] < od.keys[j]
    /\ Range(od.keys) = DOMAIN od.items
\* the same for the OrderedDict of dates
WellFormedDates(od) ==
    /\ \A i, j \in 1..Len(od.keys) :
          i < j => (DateLe(od.keys[i], od.keys[j]) /\ od.keys[i] # od.keys[j])
    /\ Range(od.keys) = DOMAIN od.items

\* C31: after any sequence of append, extend and trim calls, statuses, files
\* and every per-day map have a _keys list that is strictly ascending,
\* duplicate-free and equal to the key set of _items.
OrderedIndex ==
    /\ WellFormed(statuses)
    /\ WellFormedDates(files)
    /\ \A d \in DOMAIN files.items : WellFormed(files.items[d])

\* the steps of a backward walk after its first query: the next query is for
\* the month before the one just answered, whose status is cached by then
BackwardDescends ==
    (walk.pc = "await" /\ walk.dir = "back" /\ walk'.pc = "await" /\ walk'.dir = "back") =>
        /\ walk'.ym = walk.ym - 1
        /\ walk.ym \in DOMAIN statuses'.items
        /\ \A i \in 1..Len(walk'.asked) : walk'.asked[i].ym > walk'.ym

\* C35 as claimed: the backward walk starts from the earliest cached month E,
\* or from the current month when no month is cached, and queries E-1, E-2,
\* ... in descending consecutive order, each once, the answered status being
\* merged before the next query.
BackwardFromEarliest ==
    [][/\ (walk.pc = "idle" /\ walk'.pc = "await" /\ walk'.dir = "back") =>
              walk'.ym = (IF statuses.keys # <<>> THEN statuses.keys[1] ELSE today_ym) - 1
       /\ BackwardDescends]_vars

\* C35 as amended: the first query of the backward walk is for the month
\* before the earliest cached month, and for the current month itself when no
\* month is cached; from there on it queries one month earlier each time, in
\* descending consecutive order, each month once, the answered status being
\* merged before the next query.
BackwardWalkOrder ==
    [][/\ (walk.pc = "idle" /\ walk'.pc = "await" /\ walk'.dir = "back") =>
              walk'.ym = (IF statuses.keys # <<>> THEN statuses.keys[1] - 1 ELSE today_ym)
       /\ BackwardDescends]_vars

\* C35 witness: a walk that found no cached month has asked for the current
\* month first and for the month before it next
BackwardWalkOrderWitness ==
    /\ Len(walk.asked) >= 2
    /\ walk.asked[1].dir = "back" /\ walk.asked[1].ym = today_ym
    /\ walk.asked[2].dir = "back" /\ walk.asked[2].ym = today_ym - 1
    /\ today_ym \in DOMAIN statuses.items

\* C36: a browse on a cache without statuses whose first backward query raises
\* or is answered with no status ends discovery without raising, at_start and
\* at_end both set.
ImmediateFailureCompletes ==
    (/\ Len(walk.asked) = 1
     /\ walk.asked[1].dir = "back"
     /\ walk.asked[1].answer \in {"fail", "none"}
     /\ statuses.keys = <<>>) =>
        /\ walk.pc # "raised"
        /\ walk.pc = "done" => (at_start /\ at_end)

\* C32: _async_handle_event completes without raising in every reachable
\* state of the cache, also when a browse has set at_start and when statuses
\* are cached: it raises only what a remote query of its own raised.
HandlerRunsInEveryState ==
    handler.pc = "raised" => handler.exc = "ReolinkError"

Newest(R) == CHOOSE r \in R : \A q \in R : DateTimeLe(q.start_time, r.start_time)

\* C34: when _async_handle_event completes on a cache that holds recordings,
\* _last_event is the event of the cached recording with the greatest start
\* time, and the handler has fetched again, before reading it, the last
\* present day of the newest month with a present day.
MostRecentRecording ==
    [][(handler.pc = "await" /\ handler'.pc = "done" /\ Recs([files |-> files']) # {}) =>
          /\ handler'.last_event = file_to_event(Newest(Recs([files |-> files'])))
          /\ handler'.last = last_day([statuses |-> statuses'], Len(statuses'.keys))
          /\ handler'.refreshed # <<>>
          /\ handler'.refreshed[Len(handler'.refreshed)] = handler'.last]_vars

\* C34 witness: the handler has completed after fetching again the first and
\* the last recorded day; the cache holds a recording of each and _last_event
\* is the later one
MostRecentRecordingWitness ==
    /\ handler.pc = "done"
    /\ Len(handler.refreshed) = 2
    /\ Cardinality(Recs(Cache)) = 2
    /\ handler.last_event = file_to_event(VOD_file(<<2, 2, 1>>))

\* C37: over every interleaving of browses, async_get_events calls and event
\* handler runs on a cache, at_start and at_end are never set back to false
\* once they are true.
FlagsMonotonic ==
    [][(at_start => at_start') /\ (at_end => at_end')]_vars

\* C37 witness: both flags are set, the browse that set them has returned, and
\* an event handler run and an async_get_events call have completed since
FlagsMonotonicWitness ==
    /\ at_start /\ at_end
    /\ walk.pc = "idle"
    /\ handler.pc = "done"
    /\ cal.pc = "returned"

\* C38: a day refresh of the event handler, cache.trim(day) followed by
\* cache.extend(statuses, files), is one step between two awaits: in the step
\* that trims the day the cache receives the recordings of the answer, so the
\* cache that the other coroutines see next holds for that day exactly the
\* recordings of the answer, and no other coroutine moves in that step.
AtomicDayRefresh ==
    [][Len(handler'.refreshed) = Len(handler.refreshed) + 1 =>
          LET day == handler'.refreshed[Len(handler'.refreshed)]
          IN /\ (IF day \in DOMAIN files'.items
                 THEN {combine(day, t) : t \in DOMAIN files'.items[day].items}
                 ELSE {})
                    = {handler'.got[i].start_time : i \in 1..Len(handler'.got)}
             /\ cal' = cal
             /\ walk' = walk]_vars

\* C38 witness: the handler has refreshed a day with an answer that holds a
\* recording while an async_get_events call or a browse awaits its own answer
AtomicDayRefreshWitness ==
    /\ handler.refreshed # <<>>
    /\ handler.got # <<>>
    /\ handler.pc = "await"
    /\ (cal.pc = "await" \/ walk.pc = "await")
    /\ CachedOn(handler.refreshed[Len(handler.refreshed)]) # {}

\* the listeners connected for an entry, over the chains
RECURSIVE ListenersOf(_, _)
ListenersOf(e, S) ==
    IF S = {} THEN 0
    ELSE LET c == CHOOSE x \in S : TRUE
         IN (IF c[2] = e THEN forwarding.listeners[c] ELSE 0) + ListenersOf(e, S \ {c})

\* C39: for one call of async_forward_reolink_entries the handler is invoked
\* at most once per entry, with the entry the forwarding began with, while
\* that entry is LOADED and not disabled, and at most one change listener is
\* connected for an entry at any time.
ForwardingSafe ==
    /\ \A e \in Entries : forwarding.invoked[e] <= 1
    /\ \A call \in forwarding.calls :
          /\ call.origin = call.entry
          /\ call.state = "LOADED"
          /\ ~call.disabled
    /\ \A e \in Entries : ListenersOf(e, Chains) <= 1

\* C39 witness: the handler has been invoked for an entry that had to wait for
\* its signal, while the other entry still waits with its one listener
ForwardingSafeWitness ==
    \E call \in forwarding.calls :
        /\ call.woken
        /\ forwarding.invoked[call.entry] = 1
        /\ \E x \in Entries \ {call.entry} :
              ListenersOf(x, Chains) = 1 /\ forwarding.invoked[x] = 0

\* a signal for an entry leaves alone the listeners bound to the other
\* entries, starts no coroutine for them and invokes no handler
OtherSignalsIgnored ==
    forwarding'.last.op = "signal" =>
        /\ \A c \in Chains :
              c[2] # forwarding'.last.entry =>
                  /\ forwarding'.listeners[c] = forwarding.listeners[c]
                  /\ forwarding'.tasks[c] = forwarding.tasks[c]
        /\ forwarding'.invoked = forwarding.invoked

\* C40 as claimed: an enabled entry that is not LOADED when forwarded and for
\* which a signal arrives later while it is LOADED has the handler invoked
\* eventually; signals for other entries neither invoke the handler nor
\* remove its pending listener.
ForwardedEventually ==
    /\ \A e \in Entries : forwarding.woken[e] ~> (forwarding.invoked[e] >= 1)
    /\ [][OtherSignalsIgnored]_vars

\* C40 as amended: after such a signal the handler is invoked eventually
\* unless the entry leaves the LOADED state or is disabled before the
\* coroutine that the listener started has run; signals for other entries
\* neither invoke the handler nor remove the pending listener.
ForwardedWhenStillReady ==
    /\ \A e \in Entries :
          forwarding.woken[e] ~> (forwarding.invoked[e] >= 1 \/ ~Ready(forwarding, e))
    /\ [][OtherSignalsIgnored]_vars

\* C40 witness: the handler has been invoked for an entry after its signal,
\* and the other entry, whose listener heard that signal too, still waits
ForwardedWhenStillReadyWitness ==
    \E call \in forwarding.calls :
        /\ call.woken
        /\ \E x \in Entries \ {call.entry} :
              /\ forwarding.listeners[<<x, x>>] = 1
              /\ forwarding.tasks[<<x, x>>] = 0
              /\ ~forwarding.woken[x]

====
